---- MODULE Spec2Model ----
(***************************************************************************)
(* Gmsh API example programs (share/doc/gmsh).                             *)
(*                                                                         *)
(* Spec     : examples/api/custom_gui.cpp - the main event loop            *)
(*            (main, checkForEvent), the detached worker threads (compute) *)
(*            and the user acting on the ONELAB parameters through the GUI.*)
(* ProgSpec : the sequential example programs (examples/api, tutorials/c,  *)
(*            tutorials/c++) as the sequences of API calls, error checks,  *)
(*            branches, loops and array accesses their main functions      *)
(*            execute, run against a library whose calls may fail.         *)
(* TutSpec, EventSpec : the event loops of tutorials/c++/t3.cpp, t21.cpp.   *)
(* SliceSpec, FacesSpec, MeshSpec : the computations of t20.cpp, x7.cpp and *)
(*            import_perf.c / import_perf.cpp.                              *)
(* AdaptSpec, ArgsSpec : examples/api/adapt_mesh.cpp, its calls of lines    *)
(*            242-292 and its command line.                                 *)
(* ComputeRunSpec, FairSpec : custom_gui.cpp, one run of compute through    *)
(*            all its iterations; Spec under fair scheduling.               *)
(***************************************************************************)
EXTENDS Integers, Sequences, FiniteSets, TLC

\* ------------------------------------------------------------------ bounds
\* worker thread slots (threads alive at the same time)
MaxWorkers == 2
\* largest value the user gives "My App/Number of threads"
MaxThreads == 2
\* publications of progress (line 30) after the first that are told apart in
\* a worker thread; the later ones are taken as one more of the last of these
MaxJ == 1
\* wall clock readings 0..MaxTime, in units of RefreshPeriod
MaxTime == 2
\* largest number of items (entities, list elements) a data-dependent loop of
\* an example program runs over
MaxItems == 2
\* largest size of a vector the library fills for t16.cpp: one entry for each
\* of the 6 entities handed to fragment
MaxVec == 6
\* largest number of view tags gmsh::view::getTags returns
MaxViews == 5
\* "check" events the user causes in t3.cpp / t21.cpp
MaxChecks == 3
\* t20.cpp: largest number of slices N, largest extent of the bounding box
MaxSlices == 5
MaxExtent == 2
\* x7.cpp: largest number of tetrahedra, largest face tag
MaxTets == 2
MaxFaceTag == 3
\* import_perf: largest N (the grid has N x N cells)
MaxMeshN == 4
\* adapt_mesh.cpp: largest number of integration points of an element type
MaxQuad == 2
\* adapt_mesh.cpp: largest number of command-line arguments after the program name
MaxArgs == 4
\* custom_gui.cpp: largest "My App/Iterations" a run of compute is followed through
MaxIter == 210

\* ------------------------------------------------------- program constants
\* custom_gui.cpp:28  j % (n / 100)
Percent == 100
\* custom_gui.cpp:38  getWallTime() - last_refresh > 0.1 (one clock unit = 0.1 s)
RefreshPeriod == 1
\* custom_gui.cpp:103 "My App/Iterations" "values":[1e6]
DefaultIter == 1000000
\* custom_gui.cpp:105 "My App/Number of threads" "values":[2]
DefaultThreads == 2

VARIABLES
  action,       \* ONELAB/Action: <<>> when the parameter does not exist, else <<value>>
  button,       \* ONELAB/Button: <<label, action>>
  numThreads,   \* My App/Number of threads
  iterations,   \* My App/Iterations
  showProgress, \* My App/Show progress?
  stop_computation,
  lockHolder,   \* owner of the fltk lock: 0 (nobody) or a worker slot
  now,          \* wall clock
  awakePending, \* an awake("update") request the main thread has not served yet
  lastAwake,    \* wall clock of the latest awake("update") request, -1: none
  workers,      \* worker slot -> thread state
  mainPc,       \* position of the main thread
  mainN,        \* main: `n' of checkForEvent as read last at line 63 (0: never)
  mainI,        \* main: local `i' of checkForEvent (0 outside lines 64-67)
  guiOpen,      \* fltk::isAvailable()
  nopopup,      \* "-nopopup" is among the arguments
  crashed,      \* the process died in compute (integer division by zero)
  stopSeen      \* slots that were in their loop when "should stop" was last handled

guiVars == <<action, button, numThreads, iterations, showProgress, stop_computation, lockHolder, now, awakePending, lastAwake,
             workers, mainPc, mainN, mainI, guiOpen, nopopup, crashed,
             stopSeen>>

\* state of the example program under execution (ProgSpec)
VARIABLES
  prog,         \* the program that runs
  inputs,       \* facts about argv that hold: "nopopup", "noargs" (argc < 2)
  ppc,          \* index of the next instruction in the program's table
  status,       \* "run", "exit" (return from main or exit()), "abort"
  exitCode,     \* process exit status once status = "exit"
  ierr,         \* C: the error code the latest API call stored in ierr
  nInit,        \* calls of initialize made
  nFin,         \* calls of finalize made
  heap,         \* output array -> "none", "live" (allocated by the API), "freed"
  cnt,          \* remaining iterations of the enclosing counted loops, innermost first
  flags,        \* facts about the run so far (see the steps that record them)
  vecs          \* C++: output vector -> its size()

progVars == <<prog, inputs, ppc, status, exitCode, ierr, nInit, nFin, heap, cnt, flags, vecs>>

\* state of the event loop of t3.cpp and t21.cpp (TutSpec, EventSpec); the loop
\* itself uses action, mainPc, guiOpen and nopopup
VARIABLES
  checks,       \* "check" events the GUI has recorded in ONELAB/Action
  rebuilds,     \* calls of createGeometryAndMesh / partitionMesh made by checkForEvent
  draws,        \* calls of gmsh::graphics::draw made by checkForEvent
  overwritten   \* "check" events the GUI has replaced in ONELAB/Action before
                \* checkForEvent read them

tutVars == <<checks, rebuilds, draws, overwritten>>

\* the number of tags the latest gmsh::view::getTags returned (-1: not called)
VARIABLE views

\* state of the computations of t20.cpp, x7.cpp, import_perf and adapt_mesh.cpp
VARIABLES
  calc,         \* the program whose computation is followed ("none": no one)
  cpc,          \* position in it
  arg,          \* what the computation starts from: constants, data the API returned
  loc           \* its local variables, under their names in the source

calcVars == <<calc, cpc, arg, loc>>

vars == <<guiVars, progVars, tutVars, views, calcVars>>

Slots == 1..MaxWorkers
ThreadIds == 1..MaxThreads
\* values the user gives "My App/Iterations"
IterChoices == {1, Percent}

DoIt == <<"Do it!", "should compute">>
StopIt == <<"Stop!", "should stop">>

\* a slot no thread runs in
IdleWorker == [pc |-> "idle", n |-> 0, show |-> FALSE, j |-> 0,
               last_refresh |-> 0, seen |-> FALSE]

Live(w) == workers[w].pc # "idle"
LiveSet == {w \in Slots : Live(w)}
FreeSlots == Slots \ LiveSet

\* positions of compute inside its for loop (custom_gui.cpp:23-43)
LoopPcs == {"loop", "set30", "lock33", "log34", "unlock35", "time38", "awake40"}
InLoop(w) == workers[w].pc \in LoopPcs

Running == ~crashed /\ mainPc # "exit"

----------------------------------------------------------------------------
\* custom_gui.cpp:94-113: state of main after gmsh::onelab::set(parameters)
GuiInit ==
  /\ action = <<>>
  /\ button = DoIt
  /\ numThreads = DefaultThreads
  /\ iterations = DefaultIter
  /\ showProgress = TRUE
  /\ stop_computation = FALSE
  /\ lockHolder = 0
  /\ now = 0
  /\ awakePending = FALSE
  /\ lastAwake = -1
  /\ workers = [w \in Slots |-> IdleWorker]
  /\ mainPc = "args"
  /\ mainN = 0
  /\ mainI = 0
  /\ guiOpen = FALSE
  /\ nopopup \in BOOLEAN
  /\ crashed = FALSE
  /\ stopSeen = {}

----------------------------------------------------------------------------
\* the worker threads: compute (custom_gui.cpp:14-47)

\* what gmsh::onelab::getNumber returns for a parameter of value x: the
\* parameters exist from line 113 on and are never removed
GetNumber(x) == <<x>>

\* lines 19, 63: v.size() ? static_cast<int>(v[0]) : 1
FirstOrOne(v) == IF Len(v) > 0 THEN v[1] ELSE 1

\* line 20: (progress.size() && progress[0]) ? true : false
FirstIsSet(v) == Len(v) > 0 /\ v[1]

\* lines 16-17: getNumber("My App/Iterations", iterations); the thread keeps
\* what line 19 makes of it
ComputeRead(w) ==
  /\ workers[w].pc = "read"
  /\ workers' = [workers EXCEPT ![w].pc = "read18",
                                ![w].n = FirstOrOne(GetNumber(iterations))]
  /\ UNCHANGED <<action, button, numThreads, iterations, showProgress, stop_computation, lockHolder, now, awakePending,
                 lastAwake, mainPc, mainN, mainI, guiOpen, nopopup, crashed, stopSeen>>

\* lines 18-22: getNumber("My App/Show progress?", progress), a read of the
\* store of its own; the locals are initialised
ComputeReadShow(w) ==
  /\ workers[w].pc = "read18"
  /\ workers' = [workers EXCEPT ![w].pc = "loop",
                                ![w].show = FirstIsSet(GetNumber(showProgress)),
                                ![w].j = 0, ![w].last_refresh = 0]
  /\ UNCHANGED <<action, button, numThreads, iterations, showProgress, stop_computation, lockHolder, now, awakePending,
                 lastAwake, mainPc, mainN, mainI, guiOpen, nopopup, crashed, stopSeen>>

\* line 25: the value an unsynchronized read of stop_computation can yield: the
\* flag, or the value this thread saw last (the load may be kept in a register)
StopReads(w) == {stop_computation, workers[w].seen}

\* line 28: outcomes of !(j % (n / 100)); n / 100 = 0 is a division by zero
ProgressTest(j, n) ==
  IF n \div Percent = 0 THEN {"crash", "yes", "no"}
  ELSE IF j % (n \div Percent) = 0 THEN {"yes"} ELSE {"no"}

\* line 23, j++: the passes that follow pass j up to the next one that makes
\* a call (line 28 holds), or to j = n, test the flag and have no other
\* effect: they are taken together with that pass, so that pc "loop" with j
\* stands for a thread at any of them.  Passes that publish are told apart
\* up to number MaxJ; a later one is taken as number MaxJ again, and is
\* followed by another one or by the end of the loop.
NextPass(j, n, show) ==
  LET s == n \div Percent
      e == IF show /\ n > 1 /\ s > 0
           THEN (IF ((j + s) \div s) * s < n THEN ((j + s) \div s) * s ELSE n)
           ELSE IF show /\ n > 1 THEN j + 1
           ELSE n
  IN  IF show /\ n > 1 /\ s > 0 /\ e < n /\ e \div s > MaxJ
      THEN {MaxJ * s, n}
      ELSE {e}

\* lines 23-29: loop test, stop test, progress test
ComputeLoop(w) ==
  LET t == workers[w] IN
  /\ t.pc = "loop"
  /\ UNCHANGED <<action, button, numThreads, iterations, showProgress,
                 stop_computation, lockHolder, now, awakePending, lastAwake,
                 mainPc, mainN, mainI, guiOpen, nopopup, stopSeen>>
  /\ IF t.j >= t.n
     THEN /\ workers' = [workers EXCEPT ![w].pc = "result44"]
          /\ UNCHANGED crashed
     ELSE \E v \in StopReads(w) :
            IF v
            THEN /\ workers' = [workers EXCEPT ![w].pc = "result44", ![w].seen = v]
                 /\ UNCHANGED crashed
            ELSE IF t.show /\ t.n > 1
                 THEN \E r \in ProgressTest(t.j, t.n), k \in NextPass(t.j, t.n, t.show) :
                        /\ crashed' = (r = "crash")
                        /\ workers' = [workers EXCEPT
                             ![w].seen = v,
                             ![w].j = IF r = "no" THEN k ELSE t.j,
                             ![w].pc = IF r = "yes" THEN "set30" ELSE "loop"]
                 ELSE /\ \E k \in NextPass(t.j, t.n, t.show) :
                           workers' = [workers EXCEPT ![w].seen = v, ![w].j = k]
                      /\ UNCHANGED crashed

\* line 30: gmsh::onelab::setString(arg, {p%})
ComputeSetProgress(w) ==
  /\ workers[w].pc = "set30"
  /\ workers' = [workers EXCEPT ![w].pc = "lock33"]
  /\ UNCHANGED <<action, button, numThreads, iterations, showProgress,
                 stop_computation, lockHolder, now, awakePending,
                 lastAwake, mainPc, mainN, mainI, guiOpen, nopopup, crashed, stopSeen>>

\* faulty variant of line 33: the thread goes on to logger::write without
\* having taken the lock
ComputeLock_NoAcquire(w) ==
  /\ workers[w].pc = "lock33"
  /\ workers' = [workers EXCEPT ![w].pc = "log34"]
  /\ UNCHANGED lockHolder
  /\ UNCHANGED <<action, button, numThreads, iterations, showProgress, stop_computation, now, awakePending,
                 lastAwake, mainPc, mainN, mainI, guiOpen, nopopup, crashed, stopSeen>>

\* line 33: gmsh::fltk::lock()
ComputeLock(w) ==
  /\ workers[w].pc = "lock33"
  /\ lockHolder = 0
  /\ lockHolder' = w
  /\ workers' = [workers EXCEPT ![w].pc = "log34"]
  /\ UNCHANGED <<action, button, numThreads, iterations, showProgress, stop_computation, now, awakePending,
                 lastAwake, mainPc, mainN, mainI, guiOpen, nopopup, crashed, stopSeen>>

\* line 34: gmsh::logger::write(...)
ComputeLog(w) ==
  /\ workers[w].pc = "log34"
  /\ workers' = [workers EXCEPT ![w].pc = "unlock35"]
  /\ UNCHANGED <<action, button, numThreads, iterations, showProgress, stop_computation, lockHolder, now, awakePending,
                 lastAwake, mainPc, mainN, mainI, guiOpen, nopopup, crashed, stopSeen>>

\* faulty variant of line 35: the thread keeps the lock into the next iteration
ComputeUnlock_NoRelease(w) ==
  /\ workers[w].pc = "unlock35"
  /\ workers' = [workers EXCEPT ![w].pc = "time38"]
  /\ UNCHANGED lockHolder
  /\ UNCHANGED <<action, button, numThreads, iterations, showProgress, stop_computation, now, awakePending,
                 lastAwake, mainPc, mainN, mainI, guiOpen, nopopup, crashed, stopSeen>>

\* line 35: gmsh::fltk::unlock()
ComputeUnlock(w) ==
  /\ workers[w].pc = "unlock35"
  /\ lockHolder' = IF lockHolder = w THEN 0 ELSE lockHolder
  /\ workers' = [workers EXCEPT ![w].pc = "time38"]
  /\ UNCHANGED <<action, button, numThreads, iterations, showProgress, stop_computation, now, awakePending,
                 lastAwake, mainPc, mainN, mainI, guiOpen, nopopup, crashed, stopSeen>>

\* lines 38-39: the throttle test, and the time stamp when it passes
ComputeThrottle(w) ==
  LET t == workers[w] IN
  /\ t.pc = "time38"
  /\ IF now - t.last_refresh > RefreshPeriod
     THEN workers' = [workers EXCEPT ![w].last_refresh = now, ![w].pc = "awake40"]
     ELSE \E k \in NextPass(t.j, t.n, t.show) :
            workers' = [workers EXCEPT ![w].j = k, ![w].pc = "loop"]
  /\ UNCHANGED <<action, button, numThreads, iterations, showProgress, stop_computation, lockHolder, now, awakePending,
                 lastAwake, mainPc, mainN, mainI, guiOpen, nopopup, crashed, stopSeen>>

\* line 40: gmsh::fltk::awake("update"), then j++
ComputeAwake(w) ==
  /\ workers[w].pc = "awake40"
  /\ awakePending' = TRUE
  /\ lastAwake' = now
  /\ \E k \in NextPass(workers[w].j, workers[w].n, workers[w].show) :
       workers' = [workers EXCEPT ![w].j = k, ![w].pc = "loop"]
  /\ UNCHANGED <<action, button, numThreads, iterations, showProgress, stop_computation, lockHolder, now,
                 mainPc, mainN, mainI, guiOpen, nopopup, crashed, stopSeen>>

\* line 44: gmsh::onelab::setNumber(arg + " result", {k})
ComputeSetResult(w) ==
  /\ workers[w].pc = "result44"
  /\ workers' = [workers EXCEPT ![w].pc = "done45"]
  /\ UNCHANGED <<action, button, numThreads, iterations, showProgress, stop_computation, lockHolder, now, awakePending,
                 lastAwake, mainPc, mainN, mainI, guiOpen, nopopup, crashed, stopSeen>>

\* line 45: gmsh::onelab::setString("ONELAB/Action", {"done computing"})
ComputeSetDone(w) ==
  /\ workers[w].pc = "done45"
  /\ action' = <<"done computing">>
  /\ workers' = [workers EXCEPT ![w].pc = "awake46"]
  /\ UNCHANGED <<button, numThreads, iterations, showProgress, stop_computation, lockHolder, now, awakePending,
                 lastAwake, mainPc, mainN, mainI, guiOpen, nopopup, crashed, stopSeen>>

\* lines 46-47: gmsh::fltk::awake("update"); the thread ends
ComputeFinish(w) ==
  /\ workers[w].pc = "awake46"
  /\ awakePending' = TRUE
  /\ lastAwake' = now
  /\ workers' = [workers EXCEPT ![w] = IdleWorker]
  /\ stopSeen' = stopSeen \ {w}
  /\ UNCHANGED <<action, button, numThreads, iterations, showProgress, stop_computation, lockHolder, now,
                 mainPc, mainN, mainI, guiOpen, nopopup, crashed>>

Compute(w) ==
  /\ Running
  /\ \/ ComputeRead(w)
     \/ ComputeReadShow(w)
     \/ ComputeLoop(w)
     \/ ComputeSetProgress(w)
     \/ ComputeLock(w)
     \/ ComputeLog(w)
     \/ ComputeUnlock(w)
     \/ ComputeThrottle(w)
     \/ ComputeAwake(w)
     \/ ComputeSetResult(w)
     \/ ComputeSetDone(w)
     \/ ComputeFinish(w)

----------------------------------------------------------------------------
\* the main thread: main and checkForEvent (custom_gui.cpp:49-127)

\* lines 116-118: "-nopopup" skips the GUI and the event loop
MainArgs ==
  /\ mainPc = "args"
  /\ IF nopopup
     THEN mainPc' = "finalize" /\ UNCHANGED guiOpen
     ELSE mainPc' = "check" /\ guiOpen' = TRUE
  /\ UNCHANGED <<action, button, numThreads, iterations, showProgress,
                 stop_computation, lockHolder, now, awakePending, lastAwake,
                 workers, mainN, mainI, nopopup, crashed, stopSeen>>

\* faulty variant: checkForEvent returns false on an action it does not handle
Branch_RejectUnknown(a) ==
  IF a = <<>> THEN "wait"
  ELSE IF a[1] = "should compute" THEN "sc56"
  ELSE IF a[1] = "should stop" THEN "ss70"
  ELSE IF a[1] = "done computing" THEN "dc74"
  ELSE IF a[1] = "reset" THEN "rs81"
  ELSE "finalize"

\* lines 51-55, 69, 72, 79, 85, 89: the branch checkForEvent takes on the
\* value read from ONELAB/Action
Branch(a) ==
  IF a = <<>> THEN "wait"
  ELSE IF a[1] = "should compute" THEN "sc56"
  ELSE IF a[1] = "should stop" THEN "ss70"
  ELSE IF a[1] = "done computing" THEN "dc74"
  ELSE IF a[1] = "reset" THEN "rs81"
  ELSE "wait"

\* line 120: while(gmsh::fltk::isAvailable() && checkForEvent(parameters)),
\* line 52: getString("ONELAB/Action", action)
CheckGet ==
  /\ mainPc = "check"
  /\ mainPc' = IF guiOpen THEN Branch(action) ELSE "finalize"
  /\ UNCHANGED <<action, button, numThreads, iterations, showProgress,
                 stop_computation, lockHolder, now, awakePending, lastAwake,
                 workers, mainN, mainI, guiOpen, nopopup, crashed, stopSeen>>

\* lines 56-63: clear ONELAB/Action, set the button to "Stop!", update(), read
\* n = "My App/Number of threads", i = 0
ComputeBegin ==
  /\ mainPc = "sc56"
  /\ action' = <<"">>
  /\ button' = StopIt
  /\ mainN' = FirstOrOne(GetNumber(numThreads))
  /\ mainI' = 0
  /\ mainPc' = "sc64"
  /\ UNCHANGED <<numThreads, iterations, showProgress, stop_computation,
                 lockHolder, now, awakePending, lastAwake, workers, guiOpen,
                 nopopup, crashed, stopSeen>>

\* a thread std::thread t(compute, ...) starts in slot w; it sees the memory
\* as it is when the thread is created
StartedIn(w) ==
  [workers EXCEPT ![w] = [IdleWorker EXCEPT !.pc = "read",
                                            !.seen = stop_computation]]

\* lines 64-67: for(i < n) { std::thread t(compute, ...); t.detach(); }
ComputeSpawn ==
  /\ mainPc = "sc64"
  /\ IF mainI < mainN
     THEN /\ FreeSlots # {}
          /\ workers' = StartedIn(CHOOSE w \in FreeSlots : TRUE)
          /\ mainI' = mainI + 1
          /\ UNCHANGED <<mainPc, mainN>>
     ELSE /\ mainPc' = "wait"
          /\ mainI' = 0
          /\ UNCHANGED <<workers, mainN>>
  /\ UNCHANGED <<action, button, numThreads, iterations, showProgress,
                 stop_computation, lockHolder, now, awakePending, lastAwake,
                 guiOpen, nopopup, crashed, stopSeen>>

\* line 70: stop_computation = true
StopSet ==
  /\ mainPc = "ss70"
  /\ stop_computation' = TRUE
  /\ stopSeen' = {w \in Slots : InLoop(w)}
  /\ mainPc' = "wait"
  /\ UNCHANGED <<action, button, numThreads, iterations, showProgress,
                 lockHolder, now, awakePending, lastAwake, workers, mainN,
                 mainI, guiOpen, nopopup, crashed>>

\* faulty variant of lines 74-76: the button is not re-armed
DoneBegin_KeepButton ==
  /\ mainPc = "dc74"
  /\ action' = <<"">>
  /\ mainPc' = "dc77"
  /\ UNCHANGED <<button, numThreads, iterations, showProgress, stop_computation,
                 lockHolder, now, awakePending, lastAwake, workers, mainN,
                 mainI, guiOpen, nopopup, crashed, stopSeen>>

\* lines 74-76: clear ONELAB/Action, set the button to "Do it!", update()
DoneBegin ==
  /\ mainPc = "dc74"
  /\ action' = <<"">>
  /\ button' = DoIt
  /\ mainPc' = "dc77"
  /\ UNCHANGED <<numThreads, iterations, showProgress, stop_computation,
                 lockHolder, now, awakePending, lastAwake, workers, mainN,
                 mainI, guiOpen, nopopup, crashed, stopSeen>>

\* line 77: stop_computation = false
DoneResetStop ==
  /\ mainPc = "dc77"
  /\ stop_computation' = FALSE
  /\ mainPc' = "wait"
  /\ UNCHANGED <<action, button, numThreads, iterations, showProgress,
                 lockHolder, now, awakePending, lastAwake, workers, mainN,
                 mainI, guiOpen, nopopup, crashed, stopSeen>>

\* lines 81-83: clear ONELAB/Action, gmsh::onelab::set(parameters) (the values
\* of lines 102-111), update()
Reset ==
  /\ mainPc = "rs81"
  /\ action' = <<"">>
  /\ iterations' = DefaultIter
  /\ numThreads' = DefaultThreads
  /\ showProgress' = TRUE
  /\ button' = DoIt
  /\ mainPc' = "wait"
  /\ UNCHANGED <<stop_computation, lockHolder, now, awakePending, lastAwake,
                 workers, mainN, mainI, guiOpen, nopopup, crashed, stopSeen>>

\* line 121: gmsh::fltk::wait() returns once an awake request has come in
WaitAwake ==
  /\ mainPc = "wait"
  /\ awakePending
  /\ awakePending' = FALSE
  /\ mainPc' = "check"
  /\ UNCHANGED <<action, button, numThreads, iterations, showProgress,
                 stop_computation, lockHolder, now, lastAwake, workers,
                 mainN, mainI, guiOpen, nopopup, crashed, stopSeen>>

\* line 124: gmsh::finalize(); line 126: return 0 ends the process and its threads
MainFinalize ==
  /\ mainPc = "finalize"
  /\ mainPc' = "exit"
  /\ UNCHANGED <<action, button, numThreads, iterations, showProgress,
                 stop_computation, lockHolder, now, awakePending, lastAwake,
                 workers, mainN, mainI, guiOpen, nopopup, crashed, stopSeen>>

Main ==
  /\ Running
  /\ \/ MainArgs
     \/ CheckGet
     \/ ComputeBegin
     \/ ComputeSpawn
     \/ StopSet
     \/ DoneBegin
     \/ DoneResetStop
     \/ Reset
     \/ WaitAwake
     \/ MainFinalize

----------------------------------------------------------------------------
\* the user, whose events the main thread serves inside gmsh::fltk::wait()
\* (custom_gui.cpp:121); each ends the wait

\* a click on the custom button writes the button's action into ONELAB/Action
\* (lines 99-101, 109)
UserClick ==
  /\ mainPc = "wait"
  /\ button[2] = "should compute" => Cardinality(FreeSlots) >= numThreads
  /\ action' = <<button[2]>>
  /\ mainPc' = "check"
  /\ UNCHANGED <<button, numThreads, iterations, showProgress, stop_computation, lockHolder, now, awakePending,
                 lastAwake, workers, mainN, mainI, guiOpen, nopopup, crashed, stopSeen>>

\* "Reset database" (line 80)
UserReset ==
  /\ mainPc = "wait"
  /\ action' = <<"reset">>
  /\ mainPc' = "check"
  /\ UNCHANGED <<button, numThreads, iterations, showProgress, stop_computation, lockHolder, now, awakePending,
                 lastAwake, workers, mainN, mainI, guiOpen, nopopup, crashed, stopSeen>>

\* a parameter is edited (lines 103-108); ONELAB/Action becomes "check" (line 85).
\* The model has the user edit while no worker thread is alive.
UserEdit ==
  /\ mainPc = "wait"
  /\ LiveSet = {}
  /\ \E t \in ThreadIds, it \in IterChoices \cup {iterations}, sh \in BOOLEAN :
       /\ <<t, it, sh>> # <<numThreads, iterations, showProgress>>
       /\ numThreads' = t
       /\ iterations' = it
       /\ showProgress' = sh
  /\ action' = <<"check">>
  /\ mainPc' = "check"
  /\ UNCHANGED <<button, stop_computation, lockHolder, now, awakePending,
                 lastAwake, workers, mainN, mainI, guiOpen, nopopup, crashed, stopSeen>>

\* the window is closed: fltk::isAvailable() becomes false (line 120)
UserClose ==
  /\ mainPc = "wait"
  /\ guiOpen
  /\ guiOpen' = FALSE
  /\ mainPc' = "check"
  /\ UNCHANGED <<action, button, numThreads, iterations, showProgress, stop_computation, lockHolder, now, awakePending,
                 lastAwake, workers, mainN, mainI, nopopup, crashed, stopSeen>>

User ==
  /\ Running
  /\ \/ UserClick
     \/ UserReset
     \/ UserEdit
     \/ UserClose

\* gmsh::logger::getWallTime() advances; the clock is read at lines 38-40 and
\* 46 only, so the model advances it when a thread is about to read it
Tick ==
  /\ Running
  /\ now < MaxTime
  /\ \E w \in Slots : workers[w].pc \in {"time38", "awake40", "awake46"}
  /\ now' = now + 1
  /\ UNCHANGED <<action, button, numThreads, iterations, showProgress, stop_computation, lockHolder, awakePending,
                 lastAwake, workers, mainPc, mainN, mainI, guiOpen, nopopup,
                 crashed, stopSeen>>

\* no example program runs while custom_gui.cpp is followed
ProgIdle ==
  /\ prog = "custom_gui.cpp"
  /\ inputs = {}
  /\ ppc = 0
  /\ status = "idle"
  /\ exitCode = 0
  /\ ierr = 0
  /\ nInit = 0
  /\ nFin = 0
  /\ heap = <<>>
  /\ cnt = <<>>
  /\ flags = {}
  /\ vecs = <<>>

\* no tutorial event loop runs
TutIdle ==
  /\ checks = 0
  /\ rebuilds = 0
  /\ draws = 0
  /\ overwritten = 0

\* no computation is followed
CalcIdle ==
  /\ calc = "none"
  /\ cpc = "idle"
  /\ arg = <<>>
  /\ loc = <<>>

Init == GuiInit /\ ProgIdle /\ TutIdle /\ views = -1 /\ CalcIdle

Next ==
  \/ \E w \in Slots : Compute(w) /\ UNCHANGED <<progVars, tutVars, views, calcVars>>
  \/ Main /\ UNCHANGED <<progVars, tutVars, views, calcVars>>
  \/ User /\ UNCHANGED <<progVars, tutVars, views, calcVars>>
  \/ Tick /\ UNCHANGED <<progVars, tutVars, views, calcVars>>

Spec == Init /\ [][Next]_vars

\* the same with the scheduling the program runs under: the main thread and
\* every worker thread take their next step when they have one, and a thread
\* that goes on publishing comes to the last of its n passes; the user is
\* free to act or not, and so is the clock
\* thread w comes to the end of its loop: j = n (line 23)
ComputeLast(w) ==
  /\ Compute(w)
  /\ workers[w].j < workers[w].n
  /\ workers'[w].j = workers[w].n

FairSpec ==
  /\ Spec
  /\ WF_vars(Main /\ UNCHANGED <<progVars, tutVars, views, calcVars>>)
  /\ \A w \in Slots : WF_vars(Compute(w) /\ UNCHANGED <<progVars, tutVars, views, calcVars>>)
  /\ \A w \in Slots : SF_vars(ComputeLast(w) /\ UNCHANGED <<progVars, tutVars, views, calcVars>>)

----------------------------------------------------------------------------
\* the event loop of t3.cpp (lines 120-139) and t21.cpp (lines 184-202); line
\* numbers are those of t3.cpp

TutPrograms == {"t3.cpp", "t21.cpp"}

\* values of ONELAB/Action other than "check" that the GUI records (the Run
\* button, "Reset database")
OtherActions == {"compute", "reset"}

\* the variables of custom_gui.cpp the tutorials have no counterpart of
tutUnused == <<button, numThreads, iterations, showProgress, stop_computation,
               lockHolder, now, awakePending, lastAwake, workers, mainN, mainI,
               crashed, stopSeen>>

\* positions inside while(isAvailable() && checkForEvent()) wait();
TutLoopPcs == {"t_check", "t_clear", "t_rebuild", "t_draw", "t_wait"}

\* lines 15-134: the state after the first createGeometryAndMesh() (line 118)
TutInit ==
  /\ prog \in TutPrograms
  /\ inputs = {} /\ ppc = 0 /\ status = "idle" /\ exitCode = 0 /\ ierr = 0
  /\ nInit = 0 /\ nFin = 0 /\ heap = <<>> /\ cnt = <<>> /\ flags = {} /\ vecs = <<>>
  /\ action = <<>>
  /\ button = <<>>
  /\ numThreads = 0 /\ iterations = 0 /\ showProgress = FALSE
  /\ stop_computation = FALSE /\ lockHolder = 0 /\ now = 0
  /\ awakePending = FALSE /\ lastAwake = -1
  /\ workers = [w \in Slots |-> IdleWorker]
  /\ mainPc = "t_args"
  /\ mainN = 0 /\ mainI = 0
  /\ guiOpen = FALSE
  /\ nopopup \in BOOLEAN
  /\ crashed = FALSE /\ stopSeen = {}
  /\ TutIdle /\ views = -1 /\ CalcIdle

\* lines 134-136: "-nopopup" skips the GUI and the event loop
TutArgs ==
  /\ mainPc = "t_args"
  /\ IF nopopup
     THEN mainPc' = "t_finalize" /\ UNCHANGED guiOpen
     ELSE mainPc' = "t_check" /\ guiOpen' = TRUE
  /\ UNCHANGED <<action, nopopup, tutVars, tutUnused>>

\* lines 125-126: the test checkForEvent makes on the value of ONELAB/Action
IsCheck(a) == a # <<>> /\ a[1] = "check"

\* line 137: the loop condition; lines 124-126, 131: checkForEvent reads
\* ONELAB/Action and, unless it is "check", returns true at once
TutCheckGet ==
  /\ mainPc = "t_check"
  /\ mainPc' = IF ~guiOpen THEN "t_finalize"
               ELSE IF IsCheck(action) THEN "t_clear" ELSE "t_wait"
  /\ UNCHANGED <<action, guiOpen, nopopup, tutVars, tutUnused>>

\* line 127: gmsh::onelab::setString("ONELAB/Action", {""})
TutClear ==
  /\ mainPc = "t_clear"
  /\ action' = <<"">>
  /\ mainPc' = "t_rebuild"
  /\ UNCHANGED <<guiOpen, nopopup, tutVars, tutUnused>>

\* faulty variant of lines 127-128: the rebuild is made first and the action
\* is cleared after it
TutRebuild_ClearAfter ==
  /\ mainPc = "t_rebuild"
  /\ rebuilds' = rebuilds + 1
  /\ action' = <<"">>
  /\ mainPc' = "t_draw"
  /\ UNCHANGED <<guiOpen, nopopup, checks, draws, overwritten, tutUnused>>

\* line 128: createGeometryAndMesh() (t21.cpp:191 partitionMesh())
TutRebuild ==
  /\ mainPc = "t_rebuild"
  /\ rebuilds' = rebuilds + 1
  /\ mainPc' = "t_draw"
  /\ UNCHANGED <<action, guiOpen, nopopup, checks, draws, overwritten, tutUnused>>

\* lines 129-131, 138: gmsh::graphics::draw(); return true; the loop body
\* gmsh::fltk::wait() starts
TutDraw ==
  /\ mainPc = "t_draw"
  /\ draws' = draws + 1
  /\ mainPc' = "t_wait"
  /\ UNCHANGED <<action, guiOpen, nopopup, checks, rebuilds, overwritten, tutUnused>>

\* line 147: gmsh::finalize(); line 149: return 0
TutFinalize ==
  /\ mainPc = "t_finalize"
  /\ mainPc' = "t_exit"
  /\ UNCHANGED <<action, guiOpen, nopopup, tutVars, tutUnused>>

\* the user changes a parameter: the GUI records a "check" event in
\* ONELAB/Action, whatever the parameter holds: it is one parameter and keeps
\* the value written last, so a "check" that checkForEvent has not read yet is
\* replaced. The GUI serves the user inside gmsh::fltk::wait() (line 138), which
\* then returns or serves a further event first, and while the library
\* rebuilds or draws (lines 128-129).
TutUserEdit ==
  /\ mainPc \in {"t_wait", "t_rebuild", "t_draw"}
  /\ guiOpen
  /\ checks < MaxChecks
  /\ checks' = checks + 1
  /\ overwritten' = overwritten + (IF IsCheck(action) THEN 1 ELSE 0)
  /\ action' = <<"check">>
  /\ IF mainPc = "t_wait" THEN mainPc' \in {"t_wait", "t_check"}
     ELSE mainPc' = mainPc
  /\ UNCHANGED <<guiOpen, nopopup, rebuilds, draws, tutUnused>>

\* the user causes another action to be recorded, which replaces a "check"
\* that checkForEvent has not read yet
TutUserOther ==
  /\ mainPc \in {"t_wait", "t_rebuild", "t_draw"}
  /\ guiOpen
  /\ \E a \in OtherActions : action' = <<a>>
  /\ overwritten' = overwritten + (IF IsCheck(action) THEN 1 ELSE 0)
  /\ IF mainPc = "t_wait" THEN mainPc' \in {"t_wait", "t_check"}
     ELSE mainPc' = mainPc
  /\ UNCHANGED <<guiOpen, nopopup, checks, rebuilds, draws, tutUnused>>

\* gmsh::fltk::wait() returns on an event that leaves ONELAB/Action alone
TutWake ==
  /\ mainPc = "t_wait"
  /\ mainPc' = "t_check"
  /\ UNCHANGED <<action, guiOpen, nopopup, tutVars, tutUnused>>

\* the window is closed: fltk::isAvailable() becomes false
TutUserClose ==
  /\ mainPc = "t_wait"
  /\ guiOpen
  /\ guiOpen' = FALSE
  /\ mainPc' = "t_check"
  /\ UNCHANGED <<action, nopopup, tutVars, tutUnused>>

TutNext ==
  \/ TutArgs /\ UNCHANGED <<progVars, views, calcVars>>
  \/ TutCheckGet /\ UNCHANGED <<progVars, views, calcVars>>
  \/ TutClear /\ UNCHANGED <<progVars, views, calcVars>>
  \/ TutRebuild /\ UNCHANGED <<progVars, views, calcVars>>
  \/ TutDraw /\ UNCHANGED <<progVars, views, calcVars>>
  \/ TutFinalize /\ UNCHANGED <<progVars, views, calcVars>>
  \/ TutUserEdit /\ UNCHANGED <<progVars, views, calcVars>>
  \/ TutUserOther /\ UNCHANGED <<progVars, views, calcVars>>
  \/ TutWake /\ UNCHANGED <<progVars, views, calcVars>>
  \/ TutUserClose /\ UNCHANGED <<progVars, views, calcVars>>

\* t3.cpp and t21.cpp alone
TutSpec == TutInit /\ [][TutNext]_vars

\* the three programs with an event loop: custom_gui.cpp, t3.cpp, t21.cpp
EventInit == Init \/ TutInit
EventNext == Next \/ TutNext
EventSpec == EventInit /\ [][EventNext]_vars
----------------------------------------------------------------------------
\* t20.cpp:47-80: the cutting planes. A plane is given by its offset from the
\* minimum corner of the bounding box, a fraction <<numerator, denominator>>
\* per axis; N, dir and the extents dx, dy, dz of the box are in arg.

Frac(n, d) == <<n, d>>
FracAdd(a, b) == <<a[1] * b[2] + b[1] * a[2], a[2] * b[2]>>
FracEq(a, b) == a[1] * b[2] = b[1] * a[2]
\* i * t, i an int (lines 79, 106)
FracTimes(i, t) == <<i * t[1], t[2]>>

\* gmsh::model::occ::translate({p}, tx, ty, tz)
Translate(p, tx, ty, tz) ==
  [x |-> FracAdd(p.x, tx), y |-> FracAdd(p.y, ty), z |-> FracAdd(p.z, tz)]

\* every gui, program and event loop variable at rest; the computation starts
CalcStart(c) ==
  /\ GuiInit /\ nopopup = FALSE /\ ProgIdle /\ TutIdle /\ views = -1
  /\ calc = c

\* lines 50-56: N, dir and the bounding box the API returned
SliceInit ==
  /\ CalcStart("t20.cpp")
  /\ cpc = "first62"
  /\ \E N \in 1..MaxSlices, dir \in {"X", "Y", "Z"}, dx, dy, dz \in 1..MaxExtent :
       arg = [N |-> N, dir |-> dir, dx |-> dx, dy |-> dy, dz |-> dz]
  /\ loc = [s |-> <<>>, i |-> 0,
            tx |-> Frac(0, 1), ty |-> Frac(0, 1), tz |-> Frac(0, 1)]

\* lines 61-68: the first cutting plane, a rectangle with a corner at
\* (xmin, ymin, zmin), rotated about that corner
SliceFirst ==
  /\ cpc = "first62"
  /\ loc' = [loc EXCEPT !.s = <<[x |-> Frac(0, 1), y |-> Frac(0, 1), z |-> Frac(0, 1)]>>]
  /\ cpc' = "translate72"
  /\ UNCHANGED <<calc, arg>>

\* lines 69-72 and the loop initialisation of line 76: tx, ty, tz;
\* translate({s[0]}, tx, ty, tz); i = 1
SliceTranslateFirst ==
  /\ cpc = "translate72"
  /\ LET tx == IF arg.dir = "X" THEN Frac(arg.dx, arg.N) ELSE Frac(0, 1)
         ty == IF arg.dir = "Y" THEN Frac(arg.dy, arg.N) ELSE Frac(0, 1)
         tz == IF arg.dir = "Z" THEN Frac(arg.dz, arg.N) ELSE Frac(0, 1)
     IN  loc' = [loc EXCEPT !.tx = tx, !.ty = ty, !.tz = tz, !.i = 1,
                            !.s = <<Translate(loc.s[1], tx, ty, tz)>>]
  /\ cpc' = "loop76"
  /\ UNCHANGED <<calc, arg>>

\* line 76: i < N - 1
SliceLoop ==
  /\ cpc = "loop76"
  /\ cpc' = IF loc.i < arg.N - 1 THEN "copy77" ELSE "done"
  /\ UNCHANGED <<calc, arg, loc>>

\* lines 77-78: copy({s[0]}, tmp); s.push_back(tmp[0])
SliceCopy ==
  /\ cpc = "copy77"
  /\ loc' = [loc EXCEPT !.s = Append(loc.s, loc.s[1])]
  /\ cpc' = "translate79"
  /\ UNCHANGED <<calc, arg>>

\* faulty variant: the copy is moved as if it started at the minimum corner
LoopShift_FromCorner(i, t) == FracTimes(i + 1, t)

\* line 79: the arguments i * tx, i * ty, i * tz
LoopShift(i, t) == FracTimes(i, t)

\* lines 79-80: translate({s.back()}, i * tx, i * ty, i * tz); i++
SliceTranslate ==
  /\ cpc = "translate79"
  /\ LET n == Len(loc.s)
         p == Translate(loc.s[n], LoopShift(loc.i, loc.tx), LoopShift(loc.i, loc.ty),
                        LoopShift(loc.i, loc.tz))
     IN  loc' = [loc EXCEPT !.s[n] = p, !.i = loc.i + 1]
  /\ cpc' = "loop76"
  /\ UNCHANGED <<calc, arg>>

SliceNext ==
  \/ SliceFirst /\ UNCHANGED <<guiVars, progVars, tutVars, views>>
  \/ SliceTranslateFirst /\ UNCHANGED <<guiVars, progVars, tutVars, views>>
  \/ SliceLoop /\ UNCHANGED <<guiVars, progVars, tutVars, views>>
  \/ SliceCopy /\ UNCHANGED <<guiVars, progVars, tutVars, views>>
  \/ SliceTranslate /\ UNCHANGED <<guiVars, progVars, tutVars, views>>

SliceSpec == SliceInit /\ [][SliceNext]_vars

\* the extent of the bounding box in the slicing direction
SliceExtent == IF arg.dir = "X" THEN arg.dx ELSE IF arg.dir = "Y" THEN arg.dy ELSE arg.dz

\* the plane p is at offset o in the slicing direction and at 0 in the others
PlaneAt(p, o) ==
  /\ FracEq(p.x, IF arg.dir = "X" THEN o ELSE Frac(0, 1))
  /\ FracEq(p.y, IF arg.dir = "Y" THEN o ELSE Frac(0, 1))
  /\ FracEq(p.z, IF arg.dir = "Z" THEN o ELSE Frac(0, 1))

\* s holds n planes, the k-th at offset k * d / N
PlanesEvery(n) ==
  /\ Len(loc.s) = n
  /\ \A k \in 1..n : PlaneAt(loc.s[k], Frac(k * SliceExtent, arg.N))

\* C15 as stated: for every N >= 1, s ends up with N - 1 planes, the k-th at
\* offset k * d / N
C15_PlanesAllN == (calc = "t20.cpp" /\ cpc = "done") => PlanesEvery(arg.N - 1)

\* C15, amended: for every N >= 2, s ends up with N - 1 planes, the k-th at
\* offset k * d / N; for N = 1 it ends up with one plane, at offset d
C15_Planes ==
  (calc = "t20.cpp" /\ cpc = "done") =>
    IF arg.N >= 2 THEN PlanesEvery(arg.N - 1) ELSE PlanesEvery(1)

\* the loop has run with N = 5, the value in the source, and an extent that N
\* does not divide
C15_Witness ==
  /\ calc = "t20.cpp" /\ cpc = "done"
  /\ arg.N = 5 /\ Len(loc.s) = 4 /\ SliceExtent = 2

----------------------------------------------------------------------------
\* x7.cpp:57-99: faces2Elements and the unique triangles. The vectors the API
\* returned are in arg; element i of a C++ vector is element i + 1 of the
\* sequence that models it. A std::map is a function on its keys.

\* m[k] of a std::map: the value, a new empty vector when k is not a key
MapGet(m, k) == IF k \in DOMAIN m THEN m[k] ELSE <<>>
\* m[k] = v
MapPut(m, k, v) == [x \in DOMAIN m \cup {k} |-> IF x = k THEN v ELSE m[x]]

\* element tags of the tetrahedra, by number of tetrahedra
TetTags(E) == IF E = 1 THEN <<7>> ELSE [e \in 1..E |-> IF e = 1 THEN 7 ELSE 2 + e]

\* lines 32-58, 78: what the API returned: 4 face tags and 12 face nodes per
\* tetrahedron, the element tags, the largest element tag of the mesh
FacesInit ==
  /\ CalcStart("x7.cpp")
  /\ cpc = "map62"
  /\ \E E \in 1..MaxTets :
       \E ft \in [1..(4 * E) -> 1..MaxFaceTag], mx \in {7, 9} :
         arg = [faceTags |-> ft,
                faceNodes |-> [k \in 1..(12 * E) |-> 100 + k],
                elementTags |-> TetTags(E),
                maxElementTag |-> mx]
  /\ loc = [i |-> 0, faces2Elements |-> <<>>, uniqueFaceTags |-> {},
            tagsForTriangles |-> <<>>, faceNodesForTriangles |-> <<>>,
            t |-> 0, out |-> <<>>]

\* faulty variant: the divisor of the edge loop (line 61)
TetOfFace_AsEdge(i) == i \div 6

\* line 63: i / 4
TetOfFace(i) == i \div 4

\* lines 62-63: faces2Elements[faceTags[i]].push_back(elementTags[i / 4])
FacesMap ==
  /\ cpc = "map62"
  /\ IF loc.i < Len(arg.faceTags)
     THEN LET tag == arg.faceTags[loc.i + 1]
              tet == arg.elementTags[TetOfFace(loc.i) + 1]
          IN  /\ loc' = [loc EXCEPT
                          !.faces2Elements =
                             MapPut(@, tag, Append(MapGet(@, tag), tet)),
                          !.i = loc.i + 1]
              /\ UNCHANGED cpc
     ELSE /\ loc' = [loc EXCEPT !.i = 0]
          /\ cpc' = "unique79"
  /\ UNCHANGED <<calc, arg>>

\* lines 79-87: the first time a face tag is met, record it and push the new
\* triangle tag and the 3 nodes of the face
FacesUnique ==
  /\ cpc = "unique79"
  /\ IF loc.i < Len(arg.faceTags)
     THEN LET tag == arg.faceTags[loc.i + 1] IN
          /\ IF tag \notin loc.uniqueFaceTags
             THEN loc' = [loc EXCEPT
                            !.uniqueFaceTags = @ \cup {tag},
                            !.tagsForTriangles = Append(@, tag + arg.maxElementTag),
                            !.faceNodesForTriangles =
                               @ \o <<arg.faceNodes[3 * loc.i + 1],
                                      arg.faceNodes[3 * loc.i + 2],
                                      arg.faceNodes[3 * loc.i + 3]>>,
                            !.i = loc.i + 1]
             ELSE loc' = [loc EXCEPT !.i = loc.i + 1]
          /\ UNCHANGED cpc
     ELSE /\ loc' = [loc EXCEPT !.t = 0]
          /\ cpc' = "print95"
  /\ UNCHANGED <<calc, arg>>

\* lines 95-99: for each triangle t, print faces2Elements[t - maxElementTag]
FacesPrint ==
  /\ cpc = "print95"
  /\ IF loc.t < Len(loc.tagsForTriangles)
     THEN LET t == loc.tagsForTriangles[loc.t + 1]
              k == t - arg.maxElementTag
          IN  /\ loc' = [loc EXCEPT
                          !.out = Append(@, [t |-> t, tets |-> MapGet(loc.faces2Elements, k)]),
                          !.faces2Elements = MapPut(@, k, MapGet(@, k)),
                          !.t = loc.t + 1]
              /\ UNCHANGED cpc
     ELSE /\ cpc' = "done"
          /\ UNCHANGED loc
  /\ UNCHANGED <<calc, arg>>

FacesNext ==
  \/ FacesMap /\ UNCHANGED <<guiVars, progVars, tutVars, views>>
  \/ FacesUnique /\ UNCHANGED <<guiVars, progVars, tutVars, views>>
  \/ FacesPrint /\ UNCHANGED <<guiVars, progVars, tutVars, views>>

FacesSpec == FacesInit /\ [][FacesNext]_vars

\* the positions (from 1) of the face tag f in faceTags, in increasing order
PositionsOf(f) ==
  SelectSeq([i \in 1..Len(arg.faceTags) |-> i], LAMBDA i : arg.faceTags[i] = f)

\* the tetrahedra elementTags[i / 4] of the positions i of face tag f
TetsOf(f) ==
  [k \in 1..Len(PositionsOf(f)) |-> arg.elementTags[((PositionsOf(f)[k] - 1) \div 4) + 1]]

\* the set of face tags in faceTags
FaceTagSet == {arg.faceTags[i] : i \in 1..Len(arg.faceTags)}

\* C16: at the end tagsForTriangles has one entry per distinct face tag, without
\* duplicates, each a face tag plus maxElementTag and so above every element
\* tag; faceNodesForTriangles has, entry by entry, the 3 nodes at the first
\* position of that face; and for each triangle the list read from
\* faces2Elements is not empty and is the tetrahedra of the positions of its face
C16_UniqueTriangles ==
  (calc = "x7.cpp" /\ cpc = "done") =>
    LET tt == loc.tagsForTriangles
        n == Len(tt)
    IN  /\ \A a, b \in 1..n : tt[a] = tt[b] => a = b
        /\ {tt[a] - arg.maxElementTag : a \in 1..n} = FaceTagSet
        /\ \A a \in 1..n : tt[a] > arg.maxElementTag
        /\ Len(loc.faceNodesForTriangles) = 3 * n
        /\ \A a \in 1..n : \A c \in 1..3 :
             loc.faceNodesForTriangles[3 * (a - 1) + c] =
               arg.faceNodes[3 * (PositionsOf(tt[a] - arg.maxElementTag)[1] - 1) + c]
        /\ \A a, b \in 1..n :
             a < b => PositionsOf(tt[a] - arg.maxElementTag)[1]
                        < PositionsOf(tt[b] - arg.maxElementTag)[1]
        /\ Len(loc.out) = n
        /\ \A a \in 1..n :
             /\ loc.out[a].t = tt[a]
             /\ loc.out[a].tets # <<>>
             /\ loc.out[a].tets = TetsOf(tt[a] - arg.maxElementTag)
        /\ DOMAIN loc.faces2Elements = FaceTagSet

\* two tetrahedra share a face that is not the first face of the second one,
\* and a later face comes with a smaller tag
C16_Witness ==
  /\ calc = "x7.cpp" /\ cpc = "done"
  /\ Len(arg.elementTags) = 2
  /\ arg.faceTags[2] = arg.faceTags[7]
  /\ arg.faceTags[1] > arg.faceTags[2]
  /\ Len(loc.tagsForTriangles) = 3

----------------------------------------------------------------------------
\* create_mesh of import_perf.cpp (lines 4-30) and import_perf.c (lines 6-32),
\* run one after the other on arrays allocated as the two main functions do.
\* An array is a function on 0..size-1; loc.cpp and loc.c hold the locals and
\* the arrays of the two versions.

\* import_perf.cpp:8-10, the lambda get_node_tag
GetNodeTagCpp(N, i, j) == (N + 1) * i + j + 1

\* faulty variant: N for N + 1
GetNodeTagC_RowN(N, i, j) == N * i + j + 1

\* import_perf.c:6-9
GetNodeTagC(N, i, j) == (N + 1) * i + j + 1

get_node_tag(v, N, i, j) ==
  IF v = "cpp" THEN GetNodeTagCpp(N, i, j) ELSE GetNodeTagC(N, i, j)

\* an array of n elements; a std::vector is zero-filled (import_perf.cpp:40-44),
\* the content of malloc'ed memory is not set (import_perf.c:43-47; -1 here)
NewArray(n, fill) == [x \in 0..(n - 1) |-> fill]

\* a[x] = val; a write outside the array is recorded in oob
Store(r, name, x, val) ==
  IF x \in DOMAIN r[name]
  THEN [r EXCEPT ![name][x] = val]
  ELSE [r EXCEPT !.oob = TRUE]

\* the locals of create_mesh and the arrays of main
MeshLocals(N, fill) ==
  [i |-> 0, j |-> 0, k |-> 0, l |-> 0, at |-> "node", oob |-> FALSE,
   coords |-> NewArray((N + 1) * (N + 1) * 3, fill),
   nodes |-> NewArray((N + 1) * (N + 1), fill),
   tris |-> NewArray(N * N * 2 * 3, fill)]

\* main up to the call of create_mesh
MeshInit ==
  /\ CalcStart("import_perf")
  /\ cpc = "cpp"
  /\ \E N \in 1..MaxMeshN : arg = [N |-> N]
  /\ loc = [cpp |-> MeshLocals(arg.N, 0), c |-> MeshLocals(arg.N, -1)]

\* the version whose create_mesh runs
MeshRunning(v) == cpc = v /\ loc[v].at # "end"

\* lines 12-18 (C: 14-20): the loop tests, nodes[k], coords[3k..3k+2], k++
MeshNode(v) ==
  /\ MeshRunning(v)
  /\ loc[v].at = "node"
  /\ LET r == loc[v]
         N == arg.N
     IN  IF r.i < N + 1
         THEN LET r1 == Store(r, "nodes", r.k, get_node_tag(v, N, r.i, r.j))
                  r2 == Store(r1, "coords", 3 * r.k, <<r.i, N>>)
                  r3 == Store(r2, "coords", 3 * r.k + 1, <<r.j, N>>)
                  r4 == Store(r3, "coords", 3 * r.k + 2, <<"sin", 10 * (r.i + r.j), N>>)
              IN  loc' = [loc EXCEPT ![v] = [r4 EXCEPT !.k = r.k + 1, !.at = "tri"]]
         ELSE loc' = [loc EXCEPT ![v].at = "end"]
  /\ UNCHANGED <<calc, cpc, arg>>

\* lines 19-27 (C: 21-29): the two triangles of the cell below and left of
\* node (i, j), l++; then j++, and i++ at the end of a row
MeshTri(v) ==
  /\ MeshRunning(v)
  /\ loc[v].at = "tri"
  /\ LET r == loc[v]
         N == arg.N
         i == r.i
         j == r.j
         r1 == Store(r, "tris", 6 * r.l, get_node_tag(v, N, i - 1, j - 1))
         r2 == Store(r1, "tris", 6 * r.l + 1, get_node_tag(v, N, i, j - 1))
         r3 == Store(r2, "tris", 6 * r.l + 2, get_node_tag(v, N, i - 1, j))
         r4 == Store(r3, "tris", 6 * r.l + 3, get_node_tag(v, N, i, j - 1))
         r5 == Store(r4, "tris", 6 * r.l + 4, get_node_tag(v, N, i, j))
         r6 == Store(r5, "tris", 6 * r.l + 5, get_node_tag(v, N, i - 1, j))
         t == IF i > 0 /\ j > 0 THEN [r6 EXCEPT !.l = r.l + 1] ELSE r
     IN  loc' = [loc EXCEPT ![v] =
                   IF j + 1 < N + 1
                   THEN [t EXCEPT !.j = j + 1, !.at = "node"]
                   ELSE [t EXCEPT !.j = 0, !.i = i + 1, !.at = "node"]]
  /\ UNCHANGED <<calc, cpc, arg>>

\* create_mesh returns: the C version starts after the C++ one
MeshReturn ==
  /\ cpc \in {"cpp", "c"}
  /\ loc[cpc].at = "end"
  /\ cpc' = IF cpc = "cpp" THEN "c" ELSE "done"
  /\ UNCHANGED <<calc, arg, loc>>

MeshNext ==
  \/ \E v \in {"cpp", "c"} : MeshNode(v) /\ UNCHANGED <<guiVars, progVars, tutVars, views>>
  \/ \E v \in {"cpp", "c"} : MeshTri(v) /\ UNCHANGED <<guiVars, progVars, tutVars, views>>
  \/ MeshReturn /\ UNCHANGED <<guiVars, progVars, tutVars, views>>

MeshSpec == MeshInit /\ [][MeshNext]_vars

\* what the claim says of the arrays of one version on return
MeshFilled(r, N) ==
  /\ ~r.oob
  /\ \A k \in 0..((N + 1) * (N + 1) - 1) : r.nodes[k] = k + 1
  /\ r.l = N * N
  /\ \A x \in DOMAIN r.tris : r.tris[x] \in 1..((N + 1) * (N + 1))
  /\ \A t \in 0..(2 * N * N - 1) :
       /\ r.tris[3 * t] # r.tris[3 * t + 1]
       /\ r.tris[3 * t] # r.tris[3 * t + 2]
       /\ r.tris[3 * t + 1] # r.tris[3 * t + 2]

\* C19: no write of create_mesh leaves the arrays, in either version, at any
\* time; on return nodes[k] = k + 1 for every k, 2 * N * N triangles have been
\* written, every entry of tris is a node tag, the 3 tags of each triangle
\* differ, and the two versions have filled nodes and tris alike
C19_CreateMesh ==
  calc = "import_perf" =>
    /\ ~loc.cpp.oob /\ ~loc.c.oob
    /\ cpc \in {"c", "done"} => MeshFilled(loc.cpp, arg.N)
    /\ cpc = "done" =>
         /\ MeshFilled(loc.c, arg.N)
         /\ loc.c.nodes = loc.cpp.nodes
         /\ loc.c.tris = loc.cpp.tris

\* both versions have returned for a grid of 3 x 3 cells
C19_Witness ==
  /\ calc = "import_perf" /\ cpc = "done" /\ arg.N = 3
  /\ loc.c.l = 9 /\ loc.cpp.k = 16

----------------------------------------------------------------------------
\* adapt_mesh.cpp: myMesh, computeInterpolationError, computeSizeField,
\* getKeysValues and the calls main makes of them (lines 242-292). Reals are
\* integers here and sqrt is the integer square root. loc.engine is what the
\* meshing engine returns for the current mesh.

\* element k (from 0) of a C++ vector
Rd(s, k) == s[k + 1]

\* the keys of a std::map in the order an iterator visits them
RECURSIVE SortSet(_)
SortSet(S) ==
  IF S = {} THEN <<>>
  ELSE LET m == CHOOSE x \in S : \A y \in S : x <= y
       IN  <<m>> \o SortSet(S \ {m})
SortedKeys(m) == SortSet(DOMAIN m)

\* A double is the expression that defines it: the rational p / q, or an
\* operation of the code on doubles, in the order the code applies it.  The
\* coordinates, weights and determinants the engine returns are whole numbers
\* here; sums and differences the code takes of these alone are exact and
\* are kept as numbers.
Rat(p, q) == <<"num", p, q>>
Num(n) == Rat(n, 1)
Add(a, b) == <<"+", a, b>>
Sub(a, b) == <<"-", a, b>>
Mul(a, b) == <<"*", a, b>>
Div(a, b) == <<"/", a, b>>
\* std::pow, sqrt / std::sqrt, atanh of a std::complex, .real()
Pow(a, b) == <<"pow", a, b>>
Sqrt(a) == <<"sqrt", a>>
Atanh(a) == <<"atanh", a>>
Real(a) == <<"real", a>>
\* std::abs of a whole number
Abs(x) == IF x < 0 THEN -x ELSE x
\* a < b for the square roots of two whole numbers
Less(a, b) == a[2][2] < b[2][2]
\* std::max: (a < b) ? b : a
Max(a, b) == IF Less(a, b) THEN b ELSE a

\* lines 131-140, myFunction::operator():
\* atanh(6 * (sqrt(pow(x - .5, 2) + pow(y - .5, 2)) - .2)).real(); z is not used
myFunction(x, y, z) ==
  LET a == Mul(Num(6),
               Sub(Sqrt(Add(Pow(Sub(Num(x), Rat(1, 2)), Num(2)),
                            Pow(Sub(Num(y), Rat(1, 2)), Num(2)))),
                   Rat(1, 5)))
  IN  Real(Atanh(a))

\* --- what the engine returns (lines 81, 84, 91, 94)
\* node tags, in the order of getNodes; node k is at NodeXYZ[k]
NodeTagsChoices == {<<1, 2, 3, 4>>, <<4, 9, 2, 7>>}
NodeXYZ == <<<<0, 0, 0>>, <<2, 0, 0>>, <<0, 2, 0>>, <<2, 3, 1>>>>
\* element types with their elements and the nodes of these, by position in
\* the node list: 15 point, 1 line, 2 triangle, 8 3-node line, 3 quadrangle
ElementChoices ==
  {<<[type |-> 2, tags |-> <<10, 11>>, nodes |-> <<1, 2, 3, 2, 4, 3>>]>>,
   <<[type |-> 15, tags |-> <<1>>, nodes |-> <<1>>],
     [type |-> 1, tags |-> <<3, 2>>, nodes |-> <<1, 2, 2, 4>>],
     [type |-> 2, tags |-> <<5>>, nodes |-> <<4, 1, 3>>]>>,
   <<[type |-> 8, tags |-> <<6>>, nodes |-> <<1, 2, 3>>],
     [type |-> 3, tags |-> <<7>>, nodes |-> <<1, 2, 4, 3>>]>>}
\* integration points (u, v, w) and weights of a rule with nq points
QuadUVW(nq) ==
  [k \in 1..(3 * nq) |->
     LET p == (k + 2) \div 3
     IN  CASE k % 3 = 1 -> p - 1
           [] k % 3 = 2 -> p % 2
           [] OTHER -> 0]
QuadWeights(nq) == [p \in 1..nq |-> 3 - (p % 2)]
\* determinant k (from 1) of getJacobians: all positive, or of both signs
Deter(signs, k) == IF signs /\ k % 2 = 1 THEN -k ELSE k

\* the answer of the engine for a mesh: getNodes, getElements and, per element
\* type, getIntegrationPoints and getJacobians
EngineAnswer(vt, el, nq, signs) ==
  [vtags |-> vt,
   vxyz |-> [k \in 1..(3 * Len(vt)) |-> NodeXYZ[((k - 1) \div 3) + 1][((k - 1) % 3) + 1]],
   etypes |-> [i \in 1..Len(el) |-> el[i].type],
   etags |-> [i \in 1..Len(el) |-> el[i].tags],
   evtags |-> [i \in 1..Len(el) |-> [k \in 1..Len(el[i].nodes) |-> vt[el[i].nodes[k]]]],
   quvw |-> [i \in 1..Len(el) |-> QuadUVW(nq)],
   qweight |-> [i \in 1..Len(el) |-> QuadWeights(nq)],
   qjacob |-> [i \in 1..Len(el) |-> [k \in 1..(9 * nq * Len(el[i].tags)) |-> 0]],
   qdeter |-> [i \in 1..Len(el) |-> [k \in 1..(nq * Len(el[i].tags)) |-> Deter(signs, k)]],
   qpoints |-> [i \in 1..Len(el) |-> [k \in 1..(3 * nq * Len(el[i].tags)) |-> (k * k) % 5]]]

EngineAnswers ==
  {EngineAnswer(vt, el, nq, signs) :
     vt \in NodeTagsChoices, el \in ElementChoices, nq \in 1..MaxQuad, signs \in BOOLEAN}

\* --- main: the calls of lines 242-292, in order
MainCalls ==
  <<[fn |-> "myMesh", line |-> 242, mesh |-> "mesh"],
    [fn |-> "computeInterpolationError", line |-> 247, mesh |-> "mesh",
     f_nod |-> "f_nod", err_ele |-> "err_ele"],
    [fn |-> "getKeysValues", line |-> 251, f |-> "f_nod"],
    [fn |-> "getKeysValues", line |-> 255, f |-> "err_ele"],
    [fn |-> "computeSizeField", line |-> 261, mesh |-> "mesh",
     err_ele |-> "err_ele", sf_ele |-> "sf_ele"],
    [fn |-> "getKeysValues", line |-> 263, f |-> "sf_ele"],
    [fn |-> "generate", line |-> 277],
    [fn |-> "myMesh", line |-> 279, mesh |-> "mesh2"],
    [fn |-> "computeInterpolationError", line |-> 283, mesh |-> "mesh2",
     f_nod |-> "f2_nod", err_ele |-> "err2_ele"],
    [fn |-> "getKeysValues", line |-> 285, f |-> "f2_nod"],
    [fn |-> "getKeysValues", line |-> 289, f |-> "err2_ele"]>>

\* the call under execution
Call == MainCalls[loc.pc]

EmptyMesh == [nodes |-> <<>>, elements |-> <<>>]

\* lines 218-241: the first mesh has been generated; the objects main declares
\* are empty
AdaptInit ==
  /\ CalcStart("adapt_mesh.cpp")
  /\ cpc = "main"
  /\ arg = [N |-> 10000]
  /\ \E g \in EngineAnswers :
       loc = [engine |-> g, pc |-> 1,
              obj |-> [mesh |-> EmptyMesh, mesh2 |-> EmptyMesh],
              built |-> {},
              maps |-> [f_nod |-> <<>>, err_ele |-> <<>>, sf_ele |-> <<>>,
                        f2_nod |-> <<>>, err2_ele |-> <<>>],
              keys |-> <<>>, values |-> <<>>,
              i |-> 0, j |-> 0, nev |-> 0, nq |-> 0,
              qu |-> <<>>, qv |-> <<>>, qw |-> <<>>, fact |-> Num(0)]

\* faulty variant: the vector keeps its content
clear_Kept(v) == v

\* lines 205-206: keys.clear(), values.clear()
clear(v) == <<>>

\* main makes its next call; the callee starts with its loop counter at 0 and,
\* in getKeysValues (lines 205-206), keys and values cleared
AdaptMain ==
  /\ cpc = "main"
  /\ IF loc.pc > Len(MainCalls)
     THEN cpc' = "done" /\ UNCHANGED loc
     ELSE /\ cpc' = (CASE Call.fn = "myMesh" -> "myMesh_nodes"
                       [] Call.fn = "computeInterpolationError" -> "cie_nodes"
                       [] Call.fn = "computeSizeField" -> "csf_fact"
                       [] Call.fn = "getKeysValues" -> "gkv"
                       [] Call.fn = "generate" -> "generate")
          /\ loc' = IF Call.fn = "getKeysValues"
                    THEN [loc EXCEPT !.i = 0, !.keys = clear(@), !.values = clear(@)]
                    ELSE [loc EXCEPT !.i = 0, !.j = 0, !.fact = Num(0)]
  /\ UNCHANGED <<calc, arg>>

\* line 277: gmsh::model::mesh::generate(2) on the new model
AdaptGenerate ==
  /\ cpc = "generate"
  /\ \E g \in EngineAnswers : loc' = [loc EXCEPT !.engine = g, !.pc = loc.pc + 1]
  /\ cpc' = "main"
  /\ UNCHANGED <<calc, arg>>

\* faulty variant: the two maps are shared by all myMesh objects
CtorTarget_Shared(c) == "mesh"

\* the object a myMesh constructor fills: the one under construction
CtorTarget(c) == c.mesh

\* lines 85-88: _nodes[vtags[i]] = new myVertex(vtags[i], vxyz[3i], ...)
myMesh_nodes ==
  /\ cpc = "myMesh_nodes"
  /\ LET g == loc.engine
         i == loc.i
         m == CtorTarget(Call)
     IN  IF i < Len(g.vtags)
         THEN /\ loc' = [loc EXCEPT
                          !.obj[m].nodes =
                             MapPut(@, Rd(g.vtags, i),
                                    [tag |-> Rd(g.vtags, i), x |-> Rd(g.vxyz, 3 * i),
                                     y |-> Rd(g.vxyz, 3 * i + 1), z |-> Rd(g.vxyz, 3 * i + 2)]),
                          !.i = i + 1]
              /\ UNCHANGED cpc
         ELSE /\ loc' = [loc EXCEPT !.i = 0]
              /\ cpc' = "myMesh_type"
  /\ UNCHANGED <<calc, arg>>

\* faulty variant: the last entry of the range is left out
Slice_Short(s, a, b, step) == [n \in 1..(((b - a) \div step) - 1) |-> Rd(s, a + (n - 1) * step)]

\* every k-th element of s from position a (from 0) up to b
Slice(s, a, b, step) == [n \in 1..((b - a) \div step) |-> Rd(s, a + (n - 1) * step)]

\* lines 89-102: for element type i, nev, nq, qu, qv, qw; the constructor
\* returns after the last type
myMesh_type ==
  /\ cpc = "myMesh_type"
  /\ LET g == loc.engine
         i == loc.i
     IN  IF i < Len(g.etypes)
         THEN LET quvw == Rd(g.quvw, i) IN
              /\ loc' = [loc EXCEPT
                          !.nev = Len(Rd(g.evtags, i)) \div Len(Rd(g.etags, i)),
                          !.nq = Len(quvw) \div 3,
                          !.qu = Slice(quvw, 0, Len(quvw), 3),
                          !.qv = Slice(quvw, 1, Len(quvw) + 1, 3),
                          !.qw = Slice(quvw, 2, Len(quvw) + 2, 3),
                          !.j = 0]
              /\ cpc' = "myMesh_element"
         ELSE /\ loc' = [loc EXCEPT !.built = @ \cup {Call.mesh}, !.pc = loc.pc + 1]
              /\ cpc' = "main"
  /\ UNCHANGED <<calc, arg>>

\* lines 103-121: element j of type i: its nodes _nodes[evtags[i][k]] (a null
\* pointer is entered in _nodes for a tag that is not a key), qx, qy, qz,
\* qdet, qjac; _elements[etags[i][j]] = new myElement(...)
myMesh_element ==
  /\ cpc = "myMesh_element"
  /\ LET g == loc.engine
         i == loc.i
         j == loc.j
         m == CtorTarget(Call)
         nev == loc.nev
         nq == loc.nq
         etags == Rd(g.etags, i)
         evtags == Rd(g.evtags, i)
         qpoints == Rd(g.qpoints, i)
         evt == Slice(evtags, nev * j, nev * (j + 1), 1)
         nodes0 == loc.obj[m].nodes
         missing == {evt[k] : k \in 1..Len(evt)} \ DOMAIN nodes0
         nodes1 == [t \in DOMAIN nodes0 \cup missing |->
                      IF t \in DOMAIN nodes0 THEN nodes0[t] ELSE "null"]
         el == [tag |-> Rd(etags, j),
                nodes |-> [k \in 1..Len(evt) |-> nodes1[evt[k]]],
                qu |-> loc.qu, qv |-> loc.qv, qw |-> loc.qw,
                qweight |-> Rd(g.qweight, i),
                qx |-> Slice(qpoints, 3 * nq * j, 3 * nq * (j + 1), 3),
                qy |-> Slice(qpoints, 3 * nq * j + 1, 3 * nq * (j + 1) + 1, 3),
                qz |-> Slice(qpoints, 3 * nq * j + 2, 3 * nq * (j + 1) + 2, 3),
                qdet |-> Slice(Rd(g.qdeter, i), nq * j, nq * (j + 1), 1),
                qjac |-> Slice(Rd(g.qjacob, i), 9 * nq * j, 9 * nq * (j + 1), 1)]
     IN  IF j < Len(etags)
         THEN /\ loc' = [loc EXCEPT
                          !.obj[m].nodes = nodes1,
                          !.obj[m].elements = MapPut(@, Rd(etags, j), el),
                          !.j = j + 1]
              /\ UNCHANGED cpc
         ELSE /\ loc' = [loc EXCEPT !.i = i + 1]
              /\ cpc' = "myMesh_type"
  /\ UNCHANGED <<calc, arg>>

\* an iterator over map m after i steps: whether it is end(), and its key
AtEnd(m, i) == i >= Len(SortedKeys(m))
Visit(m, i) == SortedKeys(m)[i + 1]

\* lines 147-152: f_nod[it->first] = f(v->x(), v->y(), v->z()) for every node
computeInterpolationError_nodes ==
  /\ cpc = "cie_nodes"
  /\ LET mesh == loc.obj[Call.mesh]
         it == Visit(mesh.nodes, loc.i)
     IN  IF ~AtEnd(mesh.nodes, loc.i)
         THEN LET v == mesh.nodes[it] IN
              /\ loc' = [loc EXCEPT
                          !.maps[Call.f_nod] = MapPut(@, it, myFunction(v.x, v.y, v.z)),
                          !.i = loc.i + 1]
              /\ UNCHANGED cpc
         ELSE /\ loc' = [loc EXCEPT !.i = 0]
              /\ cpc' = "cie_elements"
  /\ UNCHANGED <<calc, arg>>

\* faulty variant: the error is computed for every element with 3 nodes or more
ThreeNodes_OrMore(e) == Len(e.nodes) >= 3

\* line 158: e->nodes().size() == 3
ThreeNodes(e) == Len(e.nodes) = 3

\* faulty variant: the determinant is used with its sign
Det_Signed(e, i) == Rd(e.qdet, i)

\* line 167: det = std::abs(e->qdet()[i])
Det(e, i) == Abs(Rd(e.qdet, i))

\* operator[] of a map of doubles: the value of key t, 0 for a key it enters
Lookup(m, t) == IF t \in DOMAIN m THEN m[t] ELSE Num(0)

\* lines 163-170: err after the integration points from i on are added
RECURSIVE ErrLoop(_, _, _, _)
ErrLoop(e, f_nod, i, err) ==
  IF i < Len(e.qweight)
  THEN LET u == Rd(e.qu, i)
           v == Rd(e.qv, i)
           weight == Rd(e.qweight, i)
           x == Rd(e.qx, i)
           y == Rd(e.qy, i)
           z == Rd(e.qz, i)
           det == Det(e, i)
           t0 == e.nodes[1].tag
           t1 == e.nodes[2].tag
           t2 == e.nodes[3].tag
           f_fem == Add(Add(Mul(Lookup(f_nod, t0), Num(1 - u - v)),
                            Mul(Lookup(f_nod, t1), Num(u))),
                        Mul(Lookup(f_nod, t2), Num(v)))
           d == Sub(myFunction(x, y, z), f_fem)
       IN  ErrLoop(e, f_nod, i + 1,
                   Add(err, Mul(Mul(Pow(d, Num(2)), Num(det)), Num(weight))))
  ELSE err

\* faulty variant: the error is stored under the tag of the first node
ErrKey_NodeTag(it, e) == e.nodes[1].tag

\* line 171: the key of err_ele[it->first], the tag of the element
ErrKey(it, e) == it

\* lines 154-173: for an element with 3 nodes, err_ele[it->first] = sqrt(err);
\* f_nod[t] enters t with value 0 when t is not a key; the function returns
\* after the last element
computeInterpolationError_elements ==
  /\ cpc = "cie_elements"
  /\ LET mesh == loc.obj[Call.mesh]
         it == Visit(mesh.elements, loc.i)
         f_nod == loc.maps[Call.f_nod]
     IN  IF ~AtEnd(mesh.elements, loc.i)
         THEN LET e == mesh.elements[it]
                  ts == {e.nodes[k].tag : k \in 1..3}
              IN  /\ loc' = IF ThreeNodes(e) /\ Len(e.qweight) > 0
                            THEN [loc EXCEPT
                                   !.maps[Call.f_nod] =
                                      [t \in DOMAIN f_nod \cup ts |-> Lookup(f_nod, t)],
                                   !.maps[Call.err_ele] =
                                      MapPut(@, ErrKey(it, e), Sqrt(ErrLoop(e, f_nod, 0, Num(0)))),
                                   !.i = loc.i + 1]
                            ELSE IF ThreeNodes(e)
                            THEN [loc EXCEPT !.maps[Call.err_ele] = MapPut(@, ErrKey(it, e), Sqrt(Num(0))),
                                             !.i = loc.i + 1]
                            ELSE [loc EXCEPT !.i = loc.i + 1]
                  /\ UNCHANGED cpc
         ELSE /\ loc' = [loc EXCEPT !.i = 0, !.pc = loc.pc + 1]
              /\ cpc' = "main"
  /\ UNCHANGED <<calc, arg>>

\* lines 21-25, myVertex::distance
distance(a, b) ==
  Sqrt(Num((a.x - b.x) * (a.x - b.x) + (a.y - b.y) * (a.y - b.y)
             + (a.z - b.z) * (a.z - b.z)))

\* lines 56-68, myElement::maxEdge: the longest edge of an element with 3
\* nodes; exit is set where the code prints a message and calls exit(1)
maxEdge(e) ==
  IF Len(e.nodes) = 3
  THEN LET a == distance(e.nodes[1], e.nodes[2])
           b == distance(e.nodes[1], e.nodes[3])
           c == distance(e.nodes[2], e.nodes[3])
       IN  [exit |-> FALSE, value |-> Max(a, Max(b, c))]
  ELSE [exit |-> TRUE, value |-> Num(0)]

\* lines 192-194: ri, from the error e of the element; with a = d = 2 (lines
\* 180-181) the exponents 2 / (2 (1 + a)), 1 / (d (1 + a)) and 1 / d are
\* 1/3, 1/6 and 1/2, and 1 + a is 3
Ri(e, N, fact) ==
  Mul(Mul(Pow(e, Rat(1, 3)), Pow(Num(2), Rat(1, 6))),
      Pow(Div(Mul(Num(3), Num(N)), fact), Rat(1, 2)))

\* lines 183-188: fact += pow(e, 2 / (1 + a)) for every error, then
\* fact *= pow(a, (2 + a) / (1 + a)) + pow(a, 1 / (1 + a)), with a = 2
computeSizeField_fact ==
  /\ cpc = "csf_fact"
  /\ LET err_ele == loc.maps[Call.err_ele]
         it == Visit(err_ele, loc.i)
     IN  IF ~AtEnd(err_ele, loc.i)
         THEN /\ loc' = [loc EXCEPT !.fact = Add(@, Pow(err_ele[it], Rat(2, 3))),
                                    !.i = loc.i + 1]
              /\ UNCHANGED cpc
         ELSE /\ loc' = [loc EXCEPT
                          !.fact = Mul(@, Add(Pow(Num(2), Rat(4, 3)), Pow(Num(2), Rat(1, 3)))),
                          !.i = 0]
              /\ cpc' = "csf_elements"
  /\ UNCHANGED <<calc, arg>>

\* lines 189-198: sf_ele[it->first] = ite->second->maxEdge() / ri; the
\* program ends in maxEdge for an element that has not 3 nodes;
\* dereferencing the end iterator is undefined
computeSizeField_elements ==
  /\ cpc = "csf_elements"
  /\ LET mesh == loc.obj[Call.mesh]
         err_ele == loc.maps[Call.err_ele]
         it == Visit(err_ele, loc.i)
     IN  IF ~AtEnd(err_ele, loc.i)
         THEN IF it \notin DOMAIN mesh.elements
              THEN cpc' = "undefined" /\ UNCHANGED loc
              ELSE IF maxEdge(mesh.elements[it]).exit
              THEN cpc' = "exit" /\ UNCHANGED loc
              ELSE /\ loc' = [loc EXCEPT
                               !.maps[Call.sf_ele] =
                                  MapPut(@, it, Div(maxEdge(mesh.elements[it]).value,
                                                    Ri(err_ele[it], arg.N, loc.fact))),
                               !.i = loc.i + 1]
                   /\ UNCHANGED cpc
         ELSE /\ loc' = [loc EXCEPT !.i = 0, !.pc = loc.pc + 1]
              /\ cpc' = "main"
  /\ UNCHANGED <<calc, arg>>

\* lines 207-211: the key and the one-element vector of the value of every
\* entry of f are appended
getKeysValues ==
  /\ cpc = "gkv"
  /\ LET f == loc.maps[Call.f]
         it == Visit(f, loc.i)
     IN  IF ~AtEnd(f, loc.i)
         THEN /\ loc' = [loc EXCEPT !.keys = Append(@, it),
                                    !.values = Append(@, <<f[it]>>),
                                    !.i = loc.i + 1]
              /\ UNCHANGED cpc
         ELSE /\ loc' = [loc EXCEPT !.i = 0, !.pc = loc.pc + 1]
              /\ cpc' = "main"
  /\ UNCHANGED <<calc, arg>>

AdaptNext ==
  \/ AdaptMain /\ UNCHANGED <<guiVars, progVars, tutVars, views>>
  \/ AdaptGenerate /\ UNCHANGED <<guiVars, progVars, tutVars, views>>
  \/ myMesh_nodes /\ UNCHANGED <<guiVars, progVars, tutVars, views>>
  \/ myMesh_type /\ UNCHANGED <<guiVars, progVars, tutVars, views>>
  \/ myMesh_element /\ UNCHANGED <<guiVars, progVars, tutVars, views>>
  \/ computeInterpolationError_nodes /\ UNCHANGED <<guiVars, progVars, tutVars, views>>
  \/ computeInterpolationError_elements /\ UNCHANGED <<guiVars, progVars, tutVars, views>>
  \/ computeSizeField_fact /\ UNCHANGED <<guiVars, progVars, tutVars, views>>
  \/ computeSizeField_elements /\ UNCHANGED <<guiVars, progVars, tutVars, views>>
  \/ getKeysValues /\ UNCHANGED <<guiVars, progVars, tutVars, views>>

AdaptSpec == AdaptInit /\ [][AdaptNext]_vars

\* the constructor of the object declared at line 242 or 279 has returned
Constructed(m) == m \in loc.built

\* C11: once the constructor of a myMesh has returned, no step of the
\* program adds, removes or changes an entry of its node map or of its
\* element map
C11_MeshReadOnly ==
  [][\A m \in {"mesh", "mesh2"} : Constructed(m) => loc'.obj[m] = loc.obj[m]]_vars

\* the first mesh is constructed and has nodes and elements, and the
\* constructor of the second has entered an element
C11_Witness ==
  /\ calc = "adapt_mesh.cpp"
  /\ Constructed("mesh")
  /\ loc.obj.mesh.nodes # <<>>
  /\ loc.obj.mesh.elements # <<>>
  /\ loc.obj.mesh2.elements # <<>>
  /\ loc.obj.mesh2 # loc.obj.mesh

\* the call at position k of main has returned
Returned(k) == loc.pc > k

\* the elements of a mesh that have exactly 3 nodes
Triangles(mesh) == {t \in DOMAIN mesh.elements : Len(mesh.elements[t].nodes) = 3}

\* C20: after computeInterpolationError the keys of f_nod are the node tags
\* of the mesh and the keys of err_ele are the tags of its elements with
\* exactly 3 nodes; after computeSizeField the keys of sf_ele are those of
\* err_ele
C20_KeySets ==
  calc = "adapt_mesh.cpp" =>
    \A k \in 1..Len(MainCalls) :
      Returned(k) =>
        LET c == MainCalls[k] IN
        /\ c.fn = "computeInterpolationError" =>
             /\ DOMAIN loc.maps[c.f_nod] = DOMAIN loc.obj[c.mesh].nodes
             /\ DOMAIN loc.maps[c.err_ele] = Triangles(loc.obj[c.mesh])
        /\ c.fn = "computeSizeField" =>
             DOMAIN loc.maps[c.sf_ele] = DOMAIN loc.maps[c.err_ele]

\* computeSizeField has returned on a mesh that has elements with 3 nodes and
\* elements with another number of nodes
C20_Witness ==
  /\ calc = "adapt_mesh.cpp"
  /\ Returned(5)
  /\ loc.maps.sf_ele # <<>>
  /\ Triangles(loc.obj.mesh) # DOMAIN loc.obj.mesh.elements
  /\ DOMAIN loc.maps.f_nod # {}

----------------------------------------------------------------------------
\* custom_gui.cpp, lines 14-47: one run of compute, followed through all its
\* iterations. arg holds what lines 17-20 read (n, show); loc holds j, p, the
\* percentage published last at line 30 (<<>>: none yet) and whether the loop
\* was left at line 25.

ComputeRunInit ==
  /\ CalcStart("custom_gui.cpp compute")
  /\ cpc = "line 23"
  /\ \E n \in 1..MaxIter, show \in BOOLEAN : arg = [n |-> n, show |-> show]
  /\ loc = [j |-> 0, p |-> 0, published |-> <<>>, stopped |-> FALSE]

\* lines 23-25: the loop test, then the stop test on whatever value
\* stop_computation has at that moment
ComputeRunLoop ==
  /\ cpc = "line 23"
  /\ IF loc.j < arg.n
     THEN \E stop \in BOOLEAN :
            IF stop
            THEN cpc' = "line 44" /\ loc' = [loc EXCEPT !.stopped = TRUE]
            ELSE cpc' = "line 28" /\ UNCHANGED loc
     ELSE cpc' = "line 44" /\ UNCHANGED loc
  /\ UNCHANGED <<calc, arg>>

\* lines 26-28: show && n > 1 && !(j % (n / 100)); with n / 100 = 0 the
\* division is undefined: the process dies, or the test goes either way
ComputeRunTest ==
  /\ cpc = "line 28"
  /\ IF arg.show /\ arg.n > 1
     THEN \E r \in ProgressTest(loc.j, arg.n) :
            /\ cpc' = (CASE r = "crash" -> "crash" [] r = "yes" -> "line 29" [] r = "no" -> "line 23")
            /\ loc' = IF r = "no" THEN [loc EXCEPT !.j = @ + 1] ELSE loc
     ELSE cpc' = "line 23" /\ loc' = [loc EXCEPT !.j = @ + 1]
  /\ UNCHANGED <<calc, arg>>

\* lines 29-42: p++, setString(arg, {to_string(p) + "%"}), the log line and
\* the refresh request; then j++
ComputeRunPublish ==
  /\ cpc = "line 29"
  /\ loc' = [loc EXCEPT !.p = @ + 1, !.published = <<loc.p + 1>>, !.j = @ + 1]
  /\ cpc' = "line 23"
  /\ UNCHANGED <<calc, arg>>

\* lines 44-47: the result is published and the thread ends
ComputeRunEnd ==
  /\ cpc = "line 44"
  /\ cpc' = "line 47"
  /\ UNCHANGED <<calc, arg, loc>>

ComputeRunNext ==
  \/ ComputeRunLoop /\ UNCHANGED <<guiVars, progVars, tutVars, views>>
  \/ ComputeRunTest /\ UNCHANGED <<guiVars, progVars, tutVars, views>>
  \/ ComputeRunPublish /\ UNCHANGED <<guiVars, progVars, tutVars, views>>
  \/ ComputeRunEnd /\ UNCHANGED <<guiVars, progVars, tutVars, views>>

ComputeRunSpec == ComputeRunInit /\ [][ComputeRunNext]_vars

\* C26 (as stated): when the progress test of line 28 comes to its division,
\* with progress display enabled and n >= 2, the divisor n / 100 is not zero.
C26_DivisorNotZero ==
  (calc = "custom_gui.cpp compute" /\ cpc = "line 28" /\ arg.show /\ arg.n >= 2)
    => arg.n \div Percent # 0

\* C27 (as stated): for n >= 100 with progress display enabled, the percentage
\* published last is between 1 and 100, and it is 100 when the loop has run
\* to completion.
C27_PercentRange ==
  (calc = "custom_gui.cpp compute" /\ arg.show /\ arg.n >= Percent) =>
    /\ \A i \in 1..Len(loc.published) : loc.published[i] \in 1..Percent
    /\ (cpc = "line 47" /\ ~loc.stopped) => loc.published = <<Percent>>

----------------------------------------------------------------------------
\* adapt_mesh.cpp, lines 216-227: the command line. arg.argv is argv from
\* argv[1] on; loc holds argc, lc, N and dumpfiles; lc is a fraction.

\* the words a command line is made of
Words == {"-nopopup", "0.05", "5000", "1"}

\* atof: the number a word starts with, 0 when it starts with none
atof(t) ==
  CASE t = "0.05" -> <<5, 100>>
    [] t = "5000" -> <<5000, 1>>
    [] t = "1" -> <<1, 1>>
    [] OTHER -> <<0, 1>>

\* atoi: the integer a word starts with, 0 when it starts with none
atoi(t) ==
  CASE t = "0.05" -> 0
    [] t = "5000" -> 5000
    [] t = "1" -> 1
    [] OTHER -> 0

\* lines 218-220: lc = 0.02, N = 10000, dumpfiles = false
ArgDefaults == [lc |-> <<2, 100>>, N |-> 10000, dumpfiles |-> FALSE]

\* main is entered with argc = 1 + the number of arguments
ArgsInit ==
  /\ CalcStart("adapt_mesh.cpp args")
  /\ cpc = "line 223"
  /\ \E n \in 0..MaxArgs : \E a \in [1..n -> Words] : arg = [argv |-> a]
  /\ loc = [argc |-> 1 + Len(arg.argv), lc |-> ArgDefaults.lc, N |-> ArgDefaults.N,
            dumpfiles |-> ArgDefaults.dumpfiles]

\* lines 222-223: if(args.count("-nopopup")) argc--
ArgsNoPopup ==
  /\ cpc = "line 223"
  /\ loc' = IF \E k \in DOMAIN arg.argv : arg.argv[k] = "-nopopup"
            THEN [loc EXCEPT !.argc = @ - 1]
            ELSE loc
  /\ cpc' = "line 225"
  /\ UNCHANGED <<calc, arg>>

\* line 225: if(argc > 1) lc = atof(argv[1])
ArgsLc ==
  /\ cpc = "line 225"
  /\ loc' = IF loc.argc > 1 THEN [loc EXCEPT !.lc = atof(arg.argv[1])] ELSE loc
  /\ cpc' = "line 226"
  /\ UNCHANGED <<calc, arg>>

\* line 226: if(argc > 2) N = atoi(argv[2])
ArgsN ==
  /\ cpc = "line 226"
  /\ loc' = IF loc.argc > 2 THEN [loc EXCEPT !.N = atoi(arg.argv[2])] ELSE loc
  /\ cpc' = "line 227"
  /\ UNCHANGED <<calc, arg>>

\* line 227: if(argc > 3) dumpfiles = atoi(argv[3])
ArgsDumpfiles ==
  /\ cpc = "line 227"
  /\ loc' = IF loc.argc > 3 THEN [loc EXCEPT !.dumpfiles = (atoi(arg.argv[3]) # 0)] ELSE loc
  /\ cpc' = "line 229"
  /\ UNCHANGED <<calc, arg>>

ArgsNext ==
  \/ ArgsNoPopup /\ UNCHANGED <<guiVars, progVars, tutVars, views>>
  \/ ArgsLc /\ UNCHANGED <<guiVars, progVars, tutVars, views>>
  \/ ArgsN /\ UNCHANGED <<guiVars, progVars, tutVars, views>>
  \/ ArgsDumpfiles /\ UNCHANGED <<guiVars, progVars, tutVars, views>>

ArgsSpec == ArgsInit /\ [][ArgsNext]_vars

\* the arguments other than -nopopup, in order
Positional == SelectSeq(arg.argv, LAMBDA t : t # "-nopopup")

\* C29: when the command line is parsed, lc, N and dumpfiles are those of
\* the first, second and third argument that is not -nopopup, and the
\* defaults 0.02, 10000 and false where there is no such argument
C29_NoPopupNotPositional ==
  (calc = "adapt_mesh.cpp args" /\ cpc = "line 229") =>
    /\ loc.lc = IF Len(Positional) >= 1 THEN atof(Positional[1]) ELSE ArgDefaults.lc
    /\ loc.N = IF Len(Positional) >= 2 THEN atoi(Positional[2]) ELSE ArgDefaults.N
    /\ loc.dumpfiles = IF Len(Positional) >= 3 THEN atoi(Positional[3]) # 0
                        ELSE ArgDefaults.dumpfiles

----------------------------------------------------------------------------
\* the lengths of the quadrature arrays of element e agree, and every index
\* of the loop over qweight (line 163) is an index of the arrays it reads
Parallel(e) ==
  LET nq == Len(e.qweight) IN
  /\ Len(e.qu) = nq /\ Len(e.qv) = nq /\ Len(e.qw) = nq
  /\ Len(e.qx) = nq /\ Len(e.qy) = nq /\ Len(e.qz) = nq
  /\ Len(e.qdet) = nq /\ Len(e.qjac) = 9 * nq
  /\ \A i \in 0..(nq - 1) :
       \A a \in {e.qu, e.qv, e.qw, e.qx, e.qy, e.qz, e.qdet} : i + 1 \in DOMAIN a

\* the arrays the engine returned for the type at position ti have the sizes
\* of E elements with nq integration points
WellSized(g, ti) ==
  LET nq == Len(g.qweight[ti])
      E == Len(g.etags[ti])
  IN  /\ Len(g.quvw[ti]) = 3 * nq /\ Len(g.qpoints[ti]) = 3 * nq * E
      /\ Len(g.qdeter[ti]) = nq * E /\ Len(g.qjacob[ti]) = 9 * nq * E

\* C21: when the engine returns arrays of the sizes of E elements with nq
\* integration points for every element type, every myElement of a mesh has
\* qu, qv, qw, qweight, qx, qy, qz and qdet of length nq and qjac of length
\* 9 * nq, so the loop over qweight reads them in bounds
C21_ParallelArrays ==
  calc = "adapt_mesh.cpp" =>
    \A m \in {"mesh", "mesh2"} :
      \A t \in DOMAIN loc.obj[m].elements : Parallel(loc.obj[m].elements[t])

\* the constructor has built the second element of a type with 2 elements
\* and MaxQuad integration points from arrays of the stated sizes
C21_Witness ==
  /\ calc = "adapt_mesh.cpp"
  /\ cpc = "myMesh_element"
  /\ loc.j = 2
  /\ loc.nq = MaxQuad
  /\ \A ti \in 1..Len(loc.engine.etypes) : WellSized(loc.engine, ti)
  /\ Rd(Rd(loc.engine.etags, loc.i), 1) \in DOMAIN loc.obj[Call.mesh].elements

\* keys and values hold the entries of map f in ascending order of the keys
KeysValuesOf(f) ==
  /\ {loc.keys[i] : i \in 1..Len(loc.keys)} = DOMAIN f
  /\ \A a, b \in 1..Len(loc.keys) : a < b => loc.keys[a] < loc.keys[b]
  /\ Len(loc.values) = Len(loc.keys)
  /\ \A i \in 1..Len(loc.keys) : loc.values[i] = <<f[loc.keys[i]]>>

\* C22: when a call of getKeysValues has returned, whatever keys and values
\* held before, keys holds the keys of f in ascending order, values is as
\* long as keys, and values[i] is the one-element vector of f[keys[i]]
C22_KeysValues ==
  calc = "adapt_mesh.cpp" =>
    \A k \in 1..Len(MainCalls) :
      (MainCalls[k].fn = "getKeysValues" /\ loc.pc = k + 1 /\ cpc = "main")
        => KeysValuesOf(loc.maps[MainCalls[k].f])

\* the call of line 255 has returned the entries of err_ele, at least 2,
\* in the vectors that held the entries of f_nod before
C22_Witness ==
  /\ calc = "adapt_mesh.cpp"
  /\ loc.pc = 5 /\ cpc = "main"
  /\ Len(loc.keys) >= 2
  /\ DOMAIN loc.maps.f_nod # DOMAIN loc.maps.err_ele
  /\ DOMAIN loc.maps.f_nod # {}

\* C28: computeSizeField never reaches exit(1) of maxEdge and never
\* dereferences the end iterator: while it runs, every key of err_ele is the
\* tag of an element of the mesh with exactly 3 nodes
C28_SizeFieldSafe ==
  calc = "adapt_mesh.cpp" =>
    /\ cpc \notin {"exit", "undefined"}
    /\ cpc \in {"csf_fact", "csf_elements"} =>
         DOMAIN loc.maps[Call.err_ele] \subseteq Triangles(loc.obj[Call.mesh])

\* computeSizeField has stored a size for an element of a mesh that also has
\* elements without 3 nodes
C28_Witness ==
  /\ calc = "adapt_mesh.cpp"
  /\ cpc = "csf_elements"
  /\ loc.maps.sf_ele # <<>>
  /\ Triangles(loc.obj.mesh) # DOMAIN loc.obj.mesh.elements

RECURSIVE SumSeq(_, _)
SumSeq(s, n) == IF n = 0 THEN Num(0) ELSE Add(SumSeq(s, n - 1), s[n])

\* f at the node of tag t, from the answer g of the engine
NodalValue(g, t) ==
  LET k == CHOOSE n \in 1..Len(g.vtags) : g.vtags[n] = t
  IN  myFunction(g.vxyz[3 * k - 2], g.vxyz[3 * k - 1], g.vxyz[3 * k])

\* the L2 interpolation error of element j (from 1) of the type at position
\* ti, from the answer g of the engine
L2Error(g, ti, j) ==
  LET nq == Len(g.qweight[ti])
      n0 == NodalValue(g, g.evtags[ti][3 * j - 2])
      n1 == NodalValue(g, g.evtags[ti][3 * j - 1])
      n2 == NodalValue(g, g.evtags[ti][3 * j])
      Term(p) ==
        LET u == g.quvw[ti][3 * p - 2]
            v == g.quvw[ti][3 * p - 1]
            q == 3 * nq * (j - 1) + 3 * p
            fx == myFunction(g.qpoints[ti][q - 2], g.qpoints[ti][q - 1], g.qpoints[ti][q])
            f_fem == Add(Add(Mul(n0, Num(1 - u - v)), Mul(n1, Num(u))), Mul(n2, Num(v)))
        IN  Mul(Mul(Pow(Sub(fx, f_fem), Num(2)), Num(Abs(g.qdeter[ti][nq * (j - 1) + p]))),
                Num(g.qweight[ti][p]))
  IN  Sqrt(SumSeq([p \in 1..nq |-> Term(p)], nq))

\* s is a sum, from 0 on, of products of a square, a number that is not
\* negative and a positive number
RECURSIVE SumOfSquares(_)
SumOfSquares(s) ==
  \/ s = Num(0)
  \/ /\ s[1] = "+"
     /\ SumOfSquares(s[2])
     /\ LET t == s[3] IN
          /\ t[1] = "*" /\ t[2][1] = "*"
          /\ t[2][2][1] = "pow" /\ t[2][2][3] = Num(2)
          /\ t[2][3][1] = "num" /\ t[2][3][2] >= 0
          /\ t[3][1] = "num" /\ t[3][2] > 0

\* e is the square root of such a sum: a real number that is not negative
NotNegative(e) == e[1] = "sqrt" /\ SumOfSquares(e[2])

\* map err holds the L2 error of every element with 3 nodes of the current
\* mesh of the engine
ErrorsStored(err) ==
  LET g == loc.engine IN
  \A ti \in 1..Len(g.etypes) :
    Len(g.evtags[ti]) = 3 * Len(g.etags[ti]) =>
      \A j \in 1..Len(g.etags[ti]) :
        /\ g.etags[ti][j] \in DOMAIN err
        /\ err[g.etags[ti][j]] = L2Error(g, ti, j)
        /\ NotNegative(err[g.etags[ti][j]])

\* C17: computeInterpolationError stores for each element with 3 nodes
\* sqrt(sum_i (f(x_i, y_i, z_i) - f_fem_i)^2 * |det_i| * w_i) with
\* f_fem_i = f(n0) * (1 - u_i - v_i) + f(n1) * u_i + f(n2) * v_i, which is not
\* negative (lines 247 and 283; the engine holds the first mesh up to line 277)
C17_L2Error ==
  calc = "adapt_mesh.cpp" =>
    /\ Returned(2) /\ ~Returned(7) => ErrorsStored(loc.maps.err_ele)
    /\ Returned(9) => ErrorsStored(loc.maps.err2_ele)

\* an error summed over MaxQuad integration points has been stored for the
\* second mesh, whose Jacobian determinants are of both signs
C17_Witness ==
  /\ calc = "adapt_mesh.cpp"
  /\ Returned(9)
  /\ \E t \in DOMAIN loc.maps.err2_ele :
       /\ loc.maps.err2_ele[t] # Sqrt(Num(0))
       /\ Len(loc.obj.mesh2.elements[t].qweight) = MaxQuad
  /\ \E ti \in 1..Len(loc.engine.etypes) :
       /\ Len(loc.engine.evtags[ti]) = 3 * Len(loc.engine.etags[ti])
       /\ \E k \in DOMAIN loc.engine.qdeter[ti] : loc.engine.qdeter[ti][k] < 0

----------------------------------------------------------------------------
\* custom_gui.cpp: properties of the worker threads and the event loop

\* positions of compute whose next statement writes the ONELAB parameter store
\* (lines 30, 44, 45)
StoreWritePcs == {"set30", "result44", "done45"}

\* C1 (as stated): every write a worker thread makes to the ONELAB parameter
\* store is made while that thread holds the fltk lock.
C1_StoreWritesUnderLock ==
  \A w \in Slots : workers[w].pc \in StoreWritePcs => lockHolder = w

\* C1 (amended): a worker thread holds the fltk lock exactly from its lock() to
\* its unlock(), around logger::write alone; every write it makes to the ONELAB
\* parameter store (progress string, result number, ONELAB/Action) is made
\* while it does not hold the lock.
C1_LockAroundLogOnly ==
  \A w \in Slots :
    /\ lockHolder = w <=> workers[w].pc \in {"log34", "unlock35"}
    /\ workers[w].pc \in StoreWritePcs => lockHolder # w

\* C1 witness: a thread that has published its progress string holds the lock
\* at logger::write while another thread is about to write the store.
C1_Witness ==
  \E w, u \in Slots :
    /\ workers[w].pc = "log34" /\ lockHolder = w
    /\ workers[u].pc = "set30"

\* C2: stop_computation is accessed without synchronization: whenever the main
\* thread is about to write it (lines 70, 77) or a worker is about to read it
\* (line 25), the accessing worker does not hold the fltk lock, and the main
\* thread never takes it.
C2_StopFlagUnlocked ==
  /\ lockHolder \in {0} \cup LiveSet
  /\ \A w \in Slots : workers[w].pc = "loop" => lockHolder # w

\* C2 witness: the main thread is at a write of stop_computation while a worker
\* is at its loop check, about to read it, and nobody holds the lock.
C2_Witness ==
  /\ mainPc \in {"ss70", "dc77"}
  /\ lockHolder = 0
  /\ \E w \in Slots : workers[w].pc = "loop" /\ workers[w].j < workers[w].n

\* C3 (as stated): a worker that was in its loop when the main loop handled
\* "should stop" leaves the loop at its next check of the flag.
C3_StopLeavesLoop ==
  [][\A w \in Slots :
       (w \in stopSeen /\ workers[w].pc = "loop" /\ workers'[w] # workers[w])
         => workers'[w].pc = "result44"]_vars

\* C4 (as stated): any two awake("update") requests of worker threads are more
\* than 0.1 s of wall-clock time apart.
C4_AwakeThrottled ==
  [][\A w \in Slots :
       (/\ workers[w].pc \in {"awake40", "awake46"}
        /\ workers'[w].pc # workers[w].pc
        /\ lastAwake >= 0)
         => now - lastAwake > RefreshPeriod]_vars

\* C5 (as stated): the number of live worker threads is at most the number of
\* threads read when the most recent "should compute" was handled.
C5_PoolFixed == Cardinality(LiveSet) <= mainN

\* a thread that has not yet published its result (line 44)
StillComputing(w) == workers[w].pc \in {"read", "read18", "result44"} \cup LoopPcs

\* C23 (as stated): when the main thread handles "done computing" (lines
\* 74-77), no worker thread is still computing: every one has published its
\* result.
C23_DoneAfterWorkers ==
  mainPc \in {"dc74", "dc77"} => \A w \in Slots : ~StillComputing(w)

\* the idle state: the button is "Do it!" and no stop is requested
IdleState == button = DoIt /\ ~stop_computation

\* every worker thread that was started has terminated, and the main thread
\* is not at lines 56-67, about to start more
AllTerminated == LiveSet = {} /\ mainPc \notin {"sc56", "sc64"}

\* C24 (as stated): whenever the window is open and every worker thread that
\* was started has terminated, the idle state is restored later on, unless the
\* window is closed.
C24_IdleRestored ==
  (guiOpen /\ AllTerminated) ~> (IdleState \/ ~guiOpen)

\* C25 (as stated): stop_computation is false whenever checkForEvent handles
\* "should compute" and starts the worker threads (lines 56-67).
C25_StartWithFlagClear ==
  mainPc \in {"sc56", "sc64"} => ~stop_computation
----------------------------------------------------------------------------
\* The sequential example programs.
\*
\* A program is the sequence of the instructions of its main function (with
\* the functions main calls written in place of the calls), in execution
\* order; every instruction carries the source line it stands for, and jumps
\* name the line they go to.  An API call reports a failure where the source
\* gives it a way to: through ierr in C, and by an exception inside a try
\* block in C++.

\* an API call of a C program that passes &ierr
CCall(l, k) ==
  [op |-> "call", line |-> l, kind |-> k, chan |-> "ierr", outs |-> {}, catch |-> 0, valid |-> TRUE, fills |-> {}]
\* the same, for a call that returns arrays the API allocates
CAlloc(l, k, o) ==
  [op |-> "call", line |-> l, kind |-> k, chan |-> "ierr", outs |-> o, catch |-> 0, valid |-> TRUE, fills |-> {}]
\* the same, for a call the program makes with arguments that name nothing in
\* the model (test.c genError: entity 999, no output pointers)
CBad(l, k) ==
  [op |-> "call", line |-> l, kind |-> k, chan |-> "ierr", outs |-> {}, catch |-> 0, valid |-> FALSE, fills |-> {}]
\* an API call of a C program that passes NULL for ierr
NCall(l, k) ==
  [op |-> "call", line |-> l, kind |-> k, chan |-> "null", outs |-> {}, catch |-> 0, valid |-> TRUE, fills |-> {}]
\* an API call of a C++ program outside any try block
XCall(l, k) ==
  [op |-> "call", line |-> l, kind |-> k, chan |-> "plain", outs |-> {}, catch |-> 0, valid |-> TRUE, fills |-> {}]
\* the same, for a call that fills the vectors o of the program
XFill(l, k, o) ==
  [op |-> "call", line |-> l, kind |-> k, chan |-> "plain", outs |-> {}, catch |-> 0, valid |-> TRUE, fills |-> o]
\* an API call of a C++ program inside a try block whose handler starts at line c
TCall(l, k, c) ==
  [op |-> "call", line |-> l, kind |-> k, chan |-> "try", outs |-> {}, catch |-> c, valid |-> TRUE, fills |-> {}]
\* chk(ierr); code is what the macro passes to exit(): "zero" or "ierr"
Chk(l, code) == [op |-> "chk", line |-> l, code |-> code]
\* if(ierr) {...}: the block follows, e is the line after it
IfErr(l, e) == [op |-> "iferr", line |-> l, else |-> e]
\* if(c) {...} when sense, if(!c) {...} when ~sense: the block follows, e is
\* the line control goes to otherwise
If(l, c, sense, e) == [op |-> "if", line |-> l, cond |-> c, sense |-> sense, else |-> e]
\* control leaves a block: the end of a try block, or of an if block before else
Goto(l, t) == [op |-> "goto", line |-> l, to |-> t]
\* entry of a for loop that runs n times, n in counts
For(l, counts) == [op |-> "for", line |-> l, counts |-> counts, over |-> ""]
\* entry of a range-based for loop over the vector v
ForEach(l, v) == [op |-> "for", line |-> l, counts |-> {}, over |-> v]
\* the loop condition: the body follows, x is the line after the loop
Test(l, x) == [op |-> "test", line |-> l, exit |-> x]
\* end of the body of the loop whose condition is at line h
Again(l, h) == [op |-> "next", line |-> l, head |-> h]
\* gmshFree(a)
Free(l, a) == [op |-> "free", line |-> l, arr |-> a]
\* an access to an element of array a
Read(l, a) == [op |-> "read", line |-> l, arr |-> a]
\* v[k]: an access to element k of the vector gmsh::view::getTags filled
Idx(l, k) == [op |-> "index", line |-> l, vec |-> "tags", at |-> "k", of |-> k]
\* v[i], i the counter of the enclosing for loop of n passes that counts from 0
IdxI(l, v, n) == [op |-> "index", line |-> l, vec |-> v, at |-> "i", of |-> n]
\* v[v.size() - 1]
IdxLast(l, v) == [op |-> "index", line |-> l, vec |-> v, at |-> "last", of |-> 0]
\* return from main (also the implicit one at its closing brace)
Ret(l, code) == [op |-> "ret", line |-> l, code |-> code]

\* test.c
Prog_test_c ==
  <<
    CCall(86, "init"), Chk(86, "zero"), CCall(16, "model"), Chk(16, "zero"),
    CCall(17, "geo"), Chk(17, "zero"), CCall(18, "geo"), Chk(18, "zero"),
    CCall(19, "geo"), Chk(19, "zero"), CCall(20, "geo"), Chk(20, "zero"),
    CCall(21, "geo"), Chk(21, "zero"), CCall(22, "geo"), Chk(22, "zero"),
    CCall(23, "geo"), Chk(23, "zero"), CCall(25, "geo"), Chk(25, "zero"),
    CCall(28, "geo"), Chk(28, "zero"), CCall(30, "geo"), Chk(30, "zero"),
    CCall(31, "geo"), Chk(31, "zero"), CCall(88, "generate"), Chk(88, "zero"),
    CCall(89, "write"), Chk(89, "zero"), CAlloc(39, "model", {"dimTags"}),
    Chk(39, "zero"), For(41, 0..MaxItems), Test(41, 74),
    CAlloc(46, "model", {"types", "elementTags", "elementTags[i]", "nelementTags", "vertexTags", "vertexTags[i]", "nvertexTags"}),
    Chk(49, "zero"), Read(51, "dimTags"), Read(53, "nelementTags"), Read(53, "types"),
    Read(54, "nvertexTags"), Read(56, "elementTags"), Read(56, "elementTags[i]"),
    Read(58, "vertexTags"), Read(58, "vertexTags[i]"), Free(66, "types"),
    Read(68, "elementTags"), Free(68, "elementTags[i]"), Read(70, "vertexTags"),
    Free(70, "vertexTags[i]"), Free(71, "nelementTags"), Free(72, "nvertexTags"),
    Again(73, 41), Free(74, "dimTags"), CBad(80, "model"), Chk(81, "zero"),
    CCall(92, "fin"), Chk(92, "zero"), Ret(93, 0)
  >>

\* onelab_run_auto.c
Prog_onelab_run_auto_c ==
  <<
    If(19, "noargs", TRUE, 24), Ret(21, 0), CCall(24, "init"), Chk(24, "ierr"),
    CCall(26, "other"), Chk(26, "ierr"), CCall(28, "other"), Chk(28, "ierr"),
    CAlloc(30, "other", {"json"}), Chk(30, "ierr"), Read(31, "json"), CCall(33, "fin"),
    Chk(33, "ierr"), Ret(35, 0)
  >>

\* simple.c
Prog_simple_c ==
  <<
    CCall(6, "init"), CCall(7, "model"), CCall(8, "geo"), CCall(9, "geo"),
    CCall(10, "geo"), CCall(11, "geo"), CCall(12, "geo"), CCall(13, "geo"),
    CCall(14, "geo"), CCall(16, "geo"), CCall(18, "geo"), CCall(20, "geo"),
    CCall(21, "geo"), CCall(22, "generate"), CCall(23, "write"), Ret(24, 0)
  >>

\* import_perf.c
Prog_import_perf_c ==
  <<
    CCall(37, "init"), CCall(41, "other"), CCall(51, "other"), CCall(54, "other"),
    CCall(55, "model"), CCall(56, "other"), CCall(59, "other"), CCall(60, "model"),
    CCall(62, "other"), CCall(65, "other"), CCall(66, "model"), CCall(67, "other"),
    CCall(70, "other"), CCall(71, "other"), CCall(72, "write"), CCall(73, "other"),
    CCall(76, "other"), CCall(77, "other"), CCall(78, "other"), CCall(83, "fin"),
    Ret(84, 0)
  >>

\* t1.c
Prog_t1_c ==
  <<
    CCall(20, "init"), CCall(24, "model"), CCall(39, "geo"), CCall(51, "geo"),
    CCall(52, "geo"), CCall(56, "geo"), CCall(70, "geo"), CCall(71, "geo"),
    CCall(72, "geo"), CCall(73, "geo"), CCall(84, "geo"), CCall(89, "geo"),
    CCall(100, "geo"), CCall(121, "model"), CCall(122, "model"), CCall(125, "generate"),
    CCall(128, "write"), If(161, "nopopup", FALSE, 182), CCall(161, "other"),
    CCall(182, "fin"), Ret(183, 0)
  >>

\* t2.c
Prog_t2_c ==
  <<
    CCall(18, "init"), CCall(20, "model"), CCall(24, "geo"), CCall(25, "geo"),
    CCall(26, "geo"), CCall(27, "geo"), CCall(29, "geo"), CCall(30, "geo"),
    CCall(31, "geo"), CCall(32, "geo"), CCall(35, "geo"), CCall(38, "geo"),
    CCall(40, "geo"), CCall(43, "model"), CCall(44, "model"), CCall(48, "geo"),
    CCall(49, "geo"), CCall(58, "geo"), CCall(62, "geo"), CAlloc(73, "geo", {"ov"}),
    Read(74, "ov"), CCall(74, "geo"), Read(78, "ov"), CCall(78, "geo"), Read(79, "ov"),
    CCall(79, "geo"), Free(83, "ov"), NCall(89, "geo"), CCall(92, "geo"),
    CAlloc(97, "geo", {"ov"}), Read(98, "ov"), CCall(98, "geo"), Read(100, "ov"),
    CCall(106, "geo"), CCall(107, "geo"), CCall(108, "geo"), CCall(112, "geo"),
    CAlloc(118, "model", {"xyz"}), Read(119, "xyz"), CCall(119, "geo"),
    Free(120, "xyz"), CCall(122, "geo"), CCall(123, "geo"), CCall(124, "geo"),
    CCall(125, "geo"), CCall(126, "geo"), CCall(127, "geo"), CCall(128, "geo"),
    CCall(129, "geo"), CCall(132, "geo"), CCall(134, "geo"), CCall(137, "geo"),
    CCall(139, "geo"), CCall(142, "geo"), CCall(144, "geo"), CCall(147, "geo"),
    CCall(149, "geo"), CCall(152, "geo"), CCall(154, "geo"), CCall(157, "geo"),
    CCall(159, "geo"), Read(174, "ov"), CCall(174, "geo"), CCall(180, "geo"),
    CCall(184, "geo"), CCall(189, "model"), CCall(192, "generate"), CCall(193, "write"),
    If(225, "nopopup", FALSE, 227), CCall(225, "other"), CCall(227, "fin"), Ret(228, 0)
  >>

\* t6.c
Prog_t6_c ==
  <<
    CCall(16, "init"), CCall(18, "model"), CCall(22, "geo"), CCall(23, "geo"),
    CCall(24, "geo"), CCall(25, "geo"), CCall(27, "geo"), CCall(28, "geo"),
    CCall(29, "geo"), CCall(30, "geo"), CCall(33, "geo"), CCall(36, "geo"),
    CCall(40, "geo"), CCall(42, "geo"), CCall(43, "geo"), CCall(45, "geo"),
    CCall(46, "geo"), CCall(47, "geo"), CCall(51, "geo"), CCall(54, "geo"),
    CCall(60, "geo"), CCall(65, "geo"), CCall(66, "geo"), CCall(67, "geo"),
    CCall(71, "geo"), CCall(72, "geo"), CCall(80, "geo"), CCall(84, "geo"),
    CCall(88, "geo"), CCall(89, "geo"), CCall(90, "geo"), CCall(91, "geo"),
    CCall(92, "geo"), CCall(94, "geo"), CCall(95, "geo"), CCall(96, "geo"),
    CCall(97, "geo"), CCall(100, "geo"), CCall(103, "geo"), For(105, {4}),
    Test(105, 113), CCall(106, "geo"), Again(106, 105), CCall(113, "other"),
    CCall(115, "geo"), CCall(116, "generate"), CCall(117, "write"),
    If(127, "nopopup", FALSE, 129), CCall(127, "other"), CCall(129, "fin"), Ret(130, 0)
  >>

\* t16.c
Prog_t16_c ==
  <<
    CCall(22, "init"), CCall(24, "model"), CCall(27, "geo"), IfErr(28, 32), Ret(30, 0),
    CCall(32, "geo"), CCall(37, "geo"), For(47, {5}), Test(47, 63), CCall(50, "geo"),
    Again(50, 47), CAlloc(63, "geo", {"ov", "ovv", "ovv[i]", "ovv_n"}), Read(71, "ov"),
    Read(77, "ovv_n"), Read(78, "ovv"), Read(78, "ovv[i]"), CCall(83, "geo"),
    For(94, {5}), Test(94, 101), CCall(96, "model"), Again(96, 94), Read(101, "ov"),
    CCall(102, "model"), Free(104, "ov"), Read(106, "ovv"), Free(106, "ovv[i]"),
    Free(107, "ovv_n"), CAlloc(122, "model", {"ov"}), Read(123, "ov"),
    CCall(123, "model"), Free(124, "ov"), CAlloc(127, "model", {"ov"}), Read(129, "ov"),
    CCall(129, "model"), Free(130, "ov"), CAlloc(134, "model", {"ov"}), Read(137, "ov"),
    CCall(137, "model"), Free(138, "ov"), CCall(140, "generate"), CCall(142, "write"),
    If(152, "nopopup", FALSE, 154), CCall(152, "other"), CCall(154, "fin"), Ret(155, 0)
  >>

\* t7.cpp
Prog_t7_cpp ==
  <<
    XCall(17, "init"), TCall(21, "other", 23), Goto(22, 33), XCall(23, "log"),
    XCall(24, "fin"), Ret(25, 0), XCall(33, "model"), XCall(37, "geo"),
    XCall(38, "geo"), XCall(39, "geo"), XCall(40, "geo"), XCall(41, "geo"),
    XCall(42, "geo"), XCall(43, "geo"), XCall(44, "geo"), XCall(45, "geo"),
    XCall(46, "geo"), XCall(47, "geo"), XCall(50, "model"), XCall(51, "model"),
    XCall(54, "model"), XCall(58, "other"), XCall(59, "other"), XCall(60, "other"),
    XCall(65, "generate"), XCall(66, "write"), If(70, "nopopup", FALSE, 72),
    XCall(70, "other"), XCall(72, "fin"), Ret(73, 0)
  >>

\* t8.cpp
Prog_t8_cpp ==
  <<
    XCall(17, "init"), XCall(19, "model"), XCall(23, "geo"), XCall(24, "geo"),
    XCall(25, "geo"), XCall(26, "geo"), XCall(27, "geo"), XCall(28, "geo"),
    XCall(29, "geo"), XCall(30, "geo"), XCall(31, "geo"), XCall(32, "geo"),
    XCall(33, "geo"), TCall(37, "other", 41), TCall(38, "other", 41),
    TCall(39, "other", 41), Goto(40, 54), XCall(41, "log"), XCall(42, "fin"),
    Ret(43, 0), XCall(54, "other"), XCall(55, "other"), XCall(56, "other"),
    XCall(57, "other"), XCall(61, "other"), XCall(62, "other"), XCall(63, "other"),
    XCall(65, "other"), XCall(66, "other"), XCall(67, "other"),
    If(71, "nopopup", FALSE, 81), XCall(71, "other"), XCall(81, "tags"),
    If(82, "views # 4", TRUE, 88), XCall(83, "log"), XCall(84, "fin"), Ret(85, 1),
    Idx(88, 0), XCall(88, "other"), Idx(89, 0), XCall(89, "other"), Idx(90, 0),
    XCall(90, "other"), Idx(91, 0), XCall(91, "other"), Idx(92, 0), XCall(92, "other"),
    Idx(93, 0), XCall(93, "other"), Idx(95, 1), XCall(95, "other"), Idx(97, 1),
    XCall(97, "other"), Idx(98, 1), XCall(98, "other"), Idx(100, 2),
    XCall(100, "other"), Idx(101, 2), XCall(101, "other"), Idx(102, 2),
    XCall(102, "other"), Idx(103, 2), XCall(103, "other"), Idx(104, 2),
    XCall(104, "other"), Idx(105, 2), XCall(105, "other"), Idx(106, 2),
    XCall(106, "other"), Idx(107, 2), XCall(107, "other"), Idx(108, 2),
    XCall(108, "other"), Idx(109, 2), XCall(109, "other"), Idx(111, 3),
    XCall(111, "other"), For(124, {3}), Test(124, 172), XCall(126, "other"),
    For(130, {4}), Test(130, 133), XCall(130, "other"), Again(130, 130),
    XCall(133, "other"), XCall(134, "other"), If(136, "lastIter", TRUE, 145),
    XCall(139, "other"), XCall(140, "other"), XCall(141, "other"), For(145, {50}),
    Test(145, 170), XCall(148, "other"), XCall(149, "other"), XCall(150, "other"),
    XCall(152, "other"), XCall(153, "other"), XCall(156, "other"), Again(165, 145),
    Again(170, 124), If(172, "nopopup", FALSE, 174), XCall(172, "other"),
    XCall(174, "fin"), Ret(176, 0)
  >>

\* t9.cpp
Prog_t9_cpp ==
  <<
    XCall(23, "init"), XCall(25, "model"), TCall(29, "other", 31), Goto(30, 37),
    XCall(31, "log"), XCall(32, "fin"), Ret(33, 0), XCall(37, "tags"),
    If(38, "views # 1", TRUE, 46), XCall(39, "log"), XCall(40, "fin"), Ret(41, 1),
    XCall(46, "other"), XCall(47, "other"), XCall(48, "other"), XCall(52, "other"),
    XCall(53, "other"), XCall(54, "other"), XCall(55, "other"), XCall(56, "other"),
    XCall(57, "other"), XCall(62, "other"), XCall(63, "other"), XCall(64, "other"),
    XCall(65, "other"), XCall(66, "other"), XCall(67, "other"), XCall(68, "other"),
    XCall(69, "other"), XCall(71, "other"), XCall(72, "other"), XCall(73, "other"),
    XCall(74, "other"), XCall(75, "other"), Idx(78, 0), XCall(78, "other"), Idx(79, 0),
    XCall(79, "other"), Idx(80, 0), XCall(80, "other"), Idx(81, 0), XCall(81, "other"),
    XCall(82, "other"), XCall(83, "other"), If(87, "nopopup", FALSE, 89),
    XCall(87, "other"), XCall(89, "fin"), Ret(90, 0)
  >>

\* t16.cpp
Prog_t16_cpp ==
  <<
    XCall(19, "init"), XCall(21, "model"), XCall(27, "other"), TCall(31, "geo", 34),
    TCall(32, "geo", 34), Goto(33, 41), XCall(34, "log"), Ret(35, 0),
    XFill(41, "geo", {"ov", "ovv"}), For(50, {5}), Test(50, 61), XCall(53, "geo"),
    Again(55, 50), XFill(61, "geo", {"ov", "ovv"}), XCall(65, "log"),
    ForEach(66, "ov"), Test(66, 71), XCall(67, "log"), Again(67, 66),
    XCall(71, "log"), For(74, {6}), Test(74, 84), IdxI(77, "ovv", 6),
    XCall(81, "log"), Again(81, 74), XCall(84, "geo"), For(95, {5}), Test(95, 99),
    XCall(95, "model"), Again(95, 95), IdxLast(99, "ov"), XCall(99, "model"),
    XFill(114, "model", {"ov"}), XCall(115, "model"), XFill(118, "model", {"ov"}),
    XCall(119, "model"), XFill(123, "model", {"ov"}),
    XCall(125, "model"), XCall(127, "generate"), XCall(129, "write"),
    XCall(137, "other"), XCall(139, "other"), If(143, "nopopup", FALSE, 145),
    XCall(143, "other"), XCall(145, "fin"), Ret(146, 0)
  >>

\* t17.cpp
Prog_t17_cpp ==
  <<
    XCall(23, "init"), XCall(25, "model"), XCall(28, "geo"), XCall(29, "geo"),
    TCall(33, "other", 35), Goto(34, 41), XCall(35, "log"), XCall(36, "fin"),
    Ret(37, 0), XCall(41, "model"), XCall(42, "model"), XCall(43, "model"),
    XCall(46, "other"), XCall(47, "other"), XCall(48, "other"), XCall(50, "generate"),
    XCall(52, "write"), If(56, "nopopup", FALSE, 58), XCall(56, "other"),
    XCall(58, "fin"), Ret(59, 0)
  >>

\* t20.cpp
Prog_t20_cpp ==
  <<
    XCall(20, "init"), XCall(22, "model"), TCall(28, "geo", 30), Goto(29, 44),
    XCall(30, "log"), XCall(31, "fin"), Ret(32, 0), XCall(44, "geo"), XCall(62, "geo"),
    If(63, "always", TRUE, 66), XCall(64, "geo"), Goto(65, 72),
    If(66, "never", TRUE, 72), XCall(67, "geo"), XCall(72, "geo"), For(76, {3}),
    Test(76, 85), XCall(77, "geo"), XCall(79, "geo"), Again(80, 76), XCall(85, "geo"),
    XCall(90, "geo"), XCall(91, "geo"), XCall(93, "geo"), If(95, "never", TRUE, 128),
    For(100, {4}), Test(100, 113), XCall(105, "model"), Again(109, 100),
    XCall(113, "model"), XCall(118, "model"), XCall(119, "model"), XCall(120, "model"),
    XCall(121, "model"), XCall(122, "model"), XCall(123, "model"), XCall(124, "model"),
    XCall(128, "other"), XCall(129, "other"), XCall(130, "generate"),
    XCall(131, "write"), If(135, "nopopup", FALSE, 137), XCall(135, "other"),
    XCall(137, "fin"), Ret(138, 0)
  >>

\* fragment_surfaces.cpp
Prog_fragment_surfaces_cpp ==
  <<
    XCall(6, "init"), XCall(7, "geo"), XCall(8, "geo"), XCall(9, "geo"),
    XCall(12, "geo"), XCall(13, "geo"), If(16, "nopopup", FALSE, 17),
    XCall(16, "other"), Ret(17, 0)
  >>

\* plugin.cpp
Prog_plugin_cpp ==
  <<
    XCall(6, "init"), XCall(9, "model"), XCall(10, "model"), XCall(11, "model"),
    XCall(13, "model"), XCall(17, "other"), XCall(18, "other"), XCall(27, "other"),
    XCall(33, "other"), XCall(34, "other"), XCall(37, "other"), XCall(41, "tags"),
    If(42, "views = 1", TRUE, 55), Idx(43, 0), XCall(43, "other"), Idx(47, 0),
    XCall(47, "other"), XCall(55, "fin"), Ret(56, 0)
  >>

Programs ==
  {"test.c", "onelab_run_auto.c", "simple.c", "import_perf.c", "t1.c", "t2.c",
   "t6.c", "t16.c", "t7.cpp", "t8.cpp", "t9.cpp", "t16.cpp", "t17.cpp", "t20.cpp",
   "fragment_surfaces.cpp", "plugin.cpp"}

\* the C programs
CPrograms ==
  {"test.c", "onelab_run_auto.c", "simple.c", "import_perf.c", "t1.c", "t2.c",
   "t6.c", "t16.c"}

\* the C programs that define and use the chk macro
ChkPrograms == {"test.c", "onelab_run_auto.c"}

\* the C++ tutorials with a try block
TryPrograms == {"t7.cpp", "t8.cpp", "t9.cpp", "t16.cpp", "t17.cpp", "t20.cpp"}

Table(p) ==
  CASE p = "test.c" -> Prog_test_c
    [] p = "onelab_run_auto.c" -> Prog_onelab_run_auto_c
    [] p = "simple.c" -> Prog_simple_c
    [] p = "import_perf.c" -> Prog_import_perf_c
    [] p = "t1.c" -> Prog_t1_c
    [] p = "t2.c" -> Prog_t2_c
    [] p = "t6.c" -> Prog_t6_c
    [] p = "t16.c" -> Prog_t16_c
    [] p = "t7.cpp" -> Prog_t7_cpp
    [] p = "t8.cpp" -> Prog_t8_cpp
    [] p = "t9.cpp" -> Prog_t9_cpp
    [] p = "t16.cpp" -> Prog_t16_cpp
    [] p = "t17.cpp" -> Prog_t17_cpp
    [] p = "t20.cpp" -> Prog_t20_cpp
    [] p = "fragment_surfaces.cpp" -> Prog_fragment_surfaces_cpp
    [] p = "plugin.cpp" -> Prog_plugin_cpp

\* the output arrays of the C programs; "a[i]" stands for the arrays the
\* elements of a point to
Arrays ==
  {"dimTags", "types", "elementTags", "elementTags[i]", "nelementTags", "vertexTags",
   "vertexTags[i]", "nvertexTags", "json", "ov", "ovv", "ovv[i]", "ovv_n", "xyz"}

\* the output vectors of t16.cpp (lines 39, 40)
Vectors == {"ov", "ovv"}

\* the sizes a vector can have after the library filled it
VecSizes == 0..MaxVec

\* what the command line can be like
InputFacts == {"nopopup", "noargs"}

\* API calls that build or change the model, mesh it, or write it out
WorkKinds == {"model", "geo", "generate", "write"}

Code == Table(prog)
Instr == Code[ppc]

\* the first instruction of line l
At(l) ==
  CHOOSE i \in 1..Len(Code) : Code[i].line = l /\ \A k \in 1..(i - 1) : Code[k].line # l

\* the condition of the loop at line l
HeadOf(l) == CHOOSE i \in 1..Len(Code) : Code[i].line = l /\ Code[i].op = "test"

ProgStart ==
  /\ prog \in Programs
  /\ inputs \in SUBSET InputFacts
  /\ ppc = 1
  /\ status = "run"
  /\ exitCode = 0
  /\ ierr = 0
  /\ nInit = 0
  /\ nFin = 0
  /\ heap = [a \in Arrays |-> "none"]
  /\ cnt = <<>>
  /\ flags = {}
  /\ vecs = [v \in Vectors |-> 0]

\* what an API call can do: a call outside a try block is not taken to throw;
\* a call with invalid arguments cannot succeed
ApiOutcomes(i) ==
  IF i.chan = "plain" THEN {"ok"}
  ELSE IF ~i.valid THEN {"fail"}
  ELSE {"ok", "fail"}

\* an access through a pointer to no live array is undefined behaviour: the
\* process goes on or dies
UBOutcomes == {"run", "abort"}

\* what making the call i adds to the facts about the run
CallFacts(i) ==
  (IF nInit = 0 /\ i.kind # "init" THEN {"preInit"} ELSE {})
    \cup (IF nFin > 0 THEN {"postFin"} ELSE {})
    \cup (IF "needChk" \in flags THEN {"unchecked"} ELSE {})
    \cup (IF "failed" \in flags THEN {"callAfterFail"} ELSE {})
    \cup (IF "caught" \in flags /\ i.kind \in WorkKinds THEN {"laterWork"} ELSE {})
    \cup (IF "caught" \in flags /\ i.kind = "log" THEN {"logged"} ELSE {})
    \cup (IF i.kind = "fin" THEN {"mainFin"} ELSE {})
    \cup (IF i.kind = "log" /\ views >= 0 THEN {"viewsLogged"} ELSE {})

\* faulty variant: the handler is empty and execution resumes after the call
CatchTarget_Resume(i) == ppc + 1

\* where control goes when the call i of a try block throws: catch(...)
CatchTarget(i) == At(i.catch)

\* the numbers of tags gmsh::view::getTags can return
ViewCounts == 0..MaxViews

\* an API call
DoCall ==
  /\ status = "run"
  /\ Instr.op = "call"
  /\ \E o \in ApiOutcomes(Instr) :
       LET i == Instr
           f == flags \cup CallFacts(i)
           e == IF i.chan = "ierr" THEN {"needChk"} ELSE {}
       IN  /\ nInit' = IF i.kind = "init" THEN nInit + 1 ELSE nInit
           /\ nFin' = IF i.kind = "fin" THEN nFin + 1 ELSE nFin
           /\ IF o = "ok"
              THEN /\ ierr' = IF i.chan = "ierr" THEN 0 ELSE ierr
                   /\ heap' = [a \in DOMAIN heap |-> IF a \in i.outs THEN "live" ELSE heap[a]]
                   /\ flags' = f \cup e
                                 \cup (IF \E a \in i.outs : heap[a] = "live" THEN {"lost"} ELSE {})
                   /\ vecs' \in {g \in [DOMAIN vecs -> VecSizes] :
                                  \A v \in DOMAIN vecs \ i.fills : g[v] = vecs[v]}
                   /\ ppc' = ppc + 1
              ELSE /\ ierr' = IF i.chan = "ierr" THEN 1 ELSE ierr
                   /\ heap' = heap
                   /\ vecs' = vecs
                   /\ flags' = f \cup e \cup {"failed"}
                                 \cup (IF i.chan = "try" THEN {"caught"} ELSE {})
                   /\ ppc' = IF i.chan = "try" THEN CatchTarget(i) ELSE ppc + 1
  /\ IF Instr.kind = "tags" THEN views' \in ViewCounts ELSE UNCHANGED views
  /\ UNCHANGED <<prog, inputs, status, exitCode, cnt>>

\* faulty variant: the macro never takes its branch
ChkFails_Never(e) == FALSE

\* chk: if(ierr != 0)
ChkFails(e) == e # 0

\* faulty variant: exit(ierr), the alternative the comment in test.c names
ChkExitCode_Ierr(code, e) == e

\* chk: the argument of exit()
ChkExitCode(code, e) == IF code = "zero" THEN 0 ELSE e

\* chk(ierr): on a non-zero code print, gmshFinalize(NULL), exit
DoChk ==
  /\ status = "run"
  /\ Instr.op = "chk"
  /\ IF ChkFails(ierr)
     THEN /\ nFin' = nFin + 1
          /\ flags' = (flags \ {"needChk"}) \cup {"chkFin"}
                        \cup (IF nFin > 0 THEN {"postFin"} ELSE {})
          /\ status' = "exit"
          /\ exitCode' = ChkExitCode(Instr.code, ierr)
          /\ UNCHANGED ppc
     ELSE /\ flags' = flags \ {"needChk"}
          /\ ppc' = ppc + 1
          /\ UNCHANGED <<nFin, status, exitCode>>
  /\ UNCHANGED <<prog, inputs, ierr, nInit, heap, cnt, vecs>>

\* if(ierr) {...}
DoIfErr ==
  /\ status = "run"
  /\ Instr.op = "iferr"
  /\ ppc' = IF ierr # 0 THEN ppc + 1 ELSE At(Instr.else)
  /\ flags' = flags \ {"needChk"}
  /\ UNCHANGED <<prog, inputs, status, exitCode, ierr, nInit, nFin, heap, cnt, vecs>>

\* faulty variant: the guards on the number of views only reject too few views
CondValues_TooFew(c) ==
  CASE c = "always" -> {TRUE}
    [] c = "never" -> {FALSE}
    [] c = "lastIter" -> {Head(cnt) = 0}
    [] c = "data" -> BOOLEAN
    [] c = "views # 4" -> {views < 4}
    [] c = "views # 1" -> {views < 1}
    [] c = "views = 1" -> {views >= 1}
    [] OTHER -> {c \in inputs}

\* the values a condition can have: fixed by the code, by the command line, by
\* the iteration of the enclosing loop, or by data the library returns
CondValues(c) ==
  CASE c = "always" -> {TRUE}
    [] c = "never" -> {FALSE}
    [] c = "lastIter" -> {Head(cnt) = 0}
    [] c = "data" -> BOOLEAN
    [] c = "views # 4" -> {views # 4}
    [] c = "views # 1" -> {views # 1}
    [] c = "views = 1" -> {views = 1}
    [] OTHER -> {c \in inputs}

\* if(c) {...}
DoIf ==
  /\ status = "run"
  /\ Instr.op = "if"
  /\ \E v \in CondValues(Instr.cond) :
       ppc' = IF v = Instr.sense THEN ppc + 1 ELSE At(Instr.else)
  /\ UNCHANGED <<prog, inputs, status, exitCode, ierr, nInit, nFin, heap, cnt, flags, vecs>>

\* control leaves a block
DoGoto ==
  /\ status = "run"
  /\ Instr.op = "goto"
  /\ ppc' = At(Instr.to)
  /\ UNCHANGED <<prog, inputs, status, exitCode, ierr, nInit, nFin, heap, cnt, flags, vecs>>

\* the numbers of passes the loop i can make
LoopCounts(i) == IF i.over = "" THEN i.counts ELSE {vecs[i.over]}

\* for(...): the number of iterations is fixed on entry
DoFor ==
  /\ status = "run"
  /\ Instr.op = "for"
  /\ \E n \in LoopCounts(Instr) : cnt' = <<n>> \o cnt
  /\ ppc' = ppc + 1
  /\ UNCHANGED <<prog, inputs, status, exitCode, ierr, nInit, nFin, heap, flags, vecs>>

\* the loop condition
DoTest ==
  /\ status = "run"
  /\ Instr.op = "test"
  /\ IF Head(cnt) = 0
     THEN /\ cnt' = Tail(cnt)
          /\ ppc' = At(Instr.exit)
     ELSE /\ cnt' = <<Head(cnt) - 1>> \o Tail(cnt)
          /\ ppc' = ppc + 1
  /\ UNCHANGED <<prog, inputs, status, exitCode, ierr, nInit, nFin, heap, flags, vecs>>

\* the end of a loop body
DoAgain ==
  /\ status = "run"
  /\ Instr.op = "next"
  /\ ppc' = HeadOf(Instr.head)
  /\ UNCHANGED <<prog, inputs, status, exitCode, ierr, nInit, nFin, heap, cnt, flags, vecs>>

\* gmshFree(a)
DoFree ==
  /\ status = "run"
  /\ Instr.op = "free"
  /\ LET a == Instr.arr IN
       IF heap[a] = "live"
       THEN /\ heap' = [heap EXCEPT ![a] = "freed"]
            /\ UNCHANGED <<flags, status>>
       ELSE /\ flags' = flags \cup {IF heap[a] = "freed" THEN "doubleFree" ELSE "wild"}
            /\ status' \in UBOutcomes
            /\ UNCHANGED heap
  /\ ppc' = ppc + 1
  /\ UNCHANGED <<prog, inputs, exitCode, ierr, nInit, nFin, cnt, vecs>>

\* an access to an element of a
DoRead ==
  /\ status = "run"
  /\ Instr.op = "read"
  /\ LET a == Instr.arr IN
       IF heap[a] = "live"
       THEN UNCHANGED <<flags, status>>
       ELSE /\ flags' = flags \cup {IF heap[a] = "freed" THEN "readAfterFree" ELSE "wild"}
            /\ status' \in UBOutcomes
  /\ ppc' = ppc + 1
  /\ UNCHANGED <<prog, inputs, exitCode, ierr, nInit, nFin, heap, cnt, vecs>>

\* size() of the vector v
VecSize(v) == IF v = "tags" THEN views ELSE vecs[v]

\* the index the access i uses: a constant, the counter of the enclosing loop
\* (the loop condition has counted the pass under way off cnt), or size() - 1,
\* which for an empty vector wraps around to the largest std::size_t and is
\* below no size
IndexOf(i) ==
  IF i.at = "i" THEN i.of - 1 - Head(cnt)
  ELSE IF i.at = "last" THEN VecSize(i.vec) - 1
  ELSE i.of

\* v[k]: k must be below the size of v
DoIndex ==
  /\ status = "run"
  /\ Instr.op = "index"
  /\ IF IndexOf(Instr) \in 0..(VecSize(Instr.vec) - 1)
     THEN /\ flags' = flags \cup {"indexed"}
          /\ UNCHANGED status
     ELSE /\ flags' = flags \cup {"indexed", "outOfRange"}
          /\ status' \in UBOutcomes
  /\ ppc' = ppc + 1
  /\ UNCHANGED <<prog, inputs, exitCode, ierr, nInit, nFin, heap, cnt, vecs>>

\* return from main
DoRet ==
  /\ status = "run"
  /\ Instr.op = "ret"
  /\ status' = "exit"
  /\ exitCode' = Instr.code
  /\ UNCHANGED <<prog, inputs, ppc, ierr, nInit, nFin, heap, cnt, flags, vecs>>

\* custom_gui.cpp is not followed while an example program runs
GuiIdle == GuiInit /\ nopopup = FALSE

ProgInit == ProgStart /\ GuiIdle /\ TutIdle /\ views = -1 /\ CalcIdle

ProgNext ==
  \/ DoCall /\ UNCHANGED <<guiVars, tutVars, calcVars>>
  \/ DoChk /\ UNCHANGED <<guiVars, tutVars, views, calcVars>>
  \/ DoIfErr /\ UNCHANGED <<guiVars, tutVars, views, calcVars>>
  \/ DoIf /\ UNCHANGED <<guiVars, tutVars, views, calcVars>>
  \/ DoGoto /\ UNCHANGED <<guiVars, tutVars, views, calcVars>>
  \/ DoFor /\ UNCHANGED <<guiVars, tutVars, views, calcVars>>
  \/ DoTest /\ UNCHANGED <<guiVars, tutVars, views, calcVars>>
  \/ DoAgain /\ UNCHANGED <<guiVars, tutVars, views, calcVars>>
  \/ DoFree /\ UNCHANGED <<guiVars, tutVars, views, calcVars>>
  \/ DoRead /\ UNCHANGED <<guiVars, tutVars, views, calcVars>>
  \/ DoIndex /\ UNCHANGED <<guiVars, tutVars, views, calcVars>>
  \/ DoRet /\ UNCHANGED <<guiVars, tutVars, views, calcVars>>

ProgSpec == ProgInit /\ [][ProgNext]_vars
\* positions of the main thread at which checkForEvent is about to handle
\* "should compute" (line 56), "done computing" (74), "reset" (81)
HandlerPcs == {"sc56", "dc74", "rs81"}

\* C18: the button follows the action handled last: handling "should compute"
\* sets it to ("Stop!", "should stop"), handling "done computing" or "reset" sets
\* it to ("Do it!", "should compute"), each also clearing ONELAB/Action to "";
\* handling "should stop" sets stop_computation and leaves ONELAB/Action and the
\* button as they are; no other step changes the button (which starts as
\* ("Do it!", "should compute"))
C18_ButtonMachine ==
  [][/\ (mainPc = "sc56" /\ mainPc' # "sc56") => (button' = StopIt /\ action' = <<"">>)
     /\ (mainPc = "dc74" /\ mainPc' # "dc74") => (button' = DoIt /\ action' = <<"">>)
     /\ (mainPc = "rs81" /\ mainPc' # "rs81") => (button' = DoIt /\ action' = <<"">>)
     /\ (mainPc = "ss70" /\ mainPc' # "ss70") =>
          (stop_computation' /\ action' = action /\ button' = button)
     /\ (mainPc \notin HandlerPcs \/ mainPc' = mainPc) => button' = button]_vars

\* "should compute" has been handled and a thread started: the button is
\* "Stop!" and the action is cleared
C18_Witness ==
  /\ mainPc = "sc64" /\ button = StopIt /\ action = <<"">>
  /\ LiveSet # {}

----------------------------------------------------------------------------
\* the event loops of custom_gui.cpp, t3.cpp and t21.cpp

\* positions of the main thread inside the while loop, at the loop condition,
\* at finalize, after return
InEventLoop ==
  mainPc \in TutLoopPcs \cup {"check", "sc56", "sc64", "ss70", "dc74", "dc77", "rs81", "wait"}
AtLoopTest == mainPc \in {"check", "t_check"}
AtFinalize == mainPc \in {"finalize", "t_finalize"}
Exited == mainPc \in {"exit", "t_exit"}

\* C12: the main thread leaves the event loop only at the loop condition, only
\* when the GUI is closed, and then goes to finalize; while the GUI is open
\* every step of it stays in the loop, whatever ONELAB/Action holds; the
\* program returns only after finalize; with "-nopopup" the loop is not entered
C12_LoopUntilClosed ==
  [][/\ (InEventLoop /\ ~InEventLoop') => (AtLoopTest /\ ~guiOpen /\ AtFinalize')
     /\ (InEventLoop /\ AtLoopTest /\ ~guiOpen /\ mainPc' # mainPc) => AtFinalize'
     /\ (InEventLoop /\ guiOpen) => InEventLoop'
     /\ (~Exited /\ Exited') => AtFinalize
     /\ (~InEventLoop /\ InEventLoop') => ~nopopup]_vars

\* the program has returned after the GUI was closed while ONELAB/Action held
\* a value
C12_Witness ==
  /\ Exited /\ ~nopopup /\ ~guiOpen
  /\ action # <<>> /\ action # <<"">>

\* "check" events recorded and not yet read by checkForEvent
PendingChecks == IF IsCheck(action) THEN 1 ELSE 0

\* C13 as stated: every "check" event recorded is either still in
\* ONELAB/Action or has caused exactly one rebuild (made or, the action being
\* cleared, about to be made), and every rebuild is followed by one draw
C13_OneRebuildPerCheck ==
  prog \in TutPrograms =>
    /\ checks = rebuilds + PendingChecks + (IF mainPc = "t_rebuild" THEN 1 ELSE 0)
    /\ rebuilds = draws + (IF mainPc = "t_draw" THEN 1 ELSE 0)

\* C13, amended: every "check" event recorded has been replaced in
\* ONELAB/Action before checkForEvent read it, or is still in ONELAB/Action, or
\* has caused exactly one rebuild (made or, the action being cleared, about to
\* be made); a pass that is about to clear the action has read "check"; and
\* every rebuild is followed by one draw. So no event is handled twice, no
\* rebuild happens without an event that was read, and the events that cause
\* no rebuild of their own are exactly the replaced ones
C13_OneRebuildPerCheckRead ==
  prog \in TutPrograms =>
    /\ checks = rebuilds + PendingChecks + overwritten
                  + (IF mainPc = "t_rebuild" THEN 1 ELSE 0)
    /\ rebuilds = draws + (IF mainPc = "t_draw" THEN 1 ELSE 0)
    /\ mainPc = "t_clear" => IsCheck(action)

\* three events have been recorded, one of them replaced by the next before it
\* was read; the other two have been handled, each by one rebuild and one draw
C13_Witness ==
  /\ prog \in TutPrograms
  /\ mainPc = "t_wait" /\ action = <<"">>
  /\ checks = 3 /\ overwritten = 1 /\ rebuilds = 2 /\ draws = 2

----------------------------------------------------------------------------
\* the example programs: properties of their runs

Terminated == status \in {"exit", "abort"}

\* C6 (as stated): in every example program no API call precedes initialize,
\* and finalize is called exactly once, after every other API call, before the
\* process terminates, on early-return and error paths too.
C6_Lifecycle ==
  /\ "preInit" \notin flags
  /\ "postFin" \notin flags
  /\ (Terminated /\ nInit > 0) => nFin = 1

\* C7 (as stated): in every C example each API call is followed by chk(ierr)
\* before the next API call, and no API call is made after one that failed.
C7_EveryCallChecked ==
  prog \in CPrograms =>
    /\ flags \cap {"unchecked", "callAfterFail", "chkFin"} = {}
    /\ Terminated => "needChk" \notin flags

\* C7 (amended): in test.c and onelab_run_auto.c, the C examples that define
\* chk, each API call that writes ierr is followed by chk(ierr) before the next
\* API call; after a call that failed the program is at that chk, or has
\* exited through it, and the gmshFinalize(NULL) of chk is the only API call
\* made after the failed one.
C7_ChkPrograms ==
  prog \in ChkPrograms =>
    /\ flags \cap {"unchecked", "callAfterFail"} = {}
    /\ Terminated => "needChk" \notin flags
    /\ "failed" \in flags =>
         IF status = "run" THEN Instr.op = "chk" /\ ierr # 0
         ELSE status = "exit" /\ "chkFin" \in flags
    /\ "chkFin" \in flags => status = "exit" /\ "failed" \in flags

\* C7 witness: a call of a chk program failed and the program exited through
\* chk, which called gmshFinalize.
C7_Witness ==
  /\ prog \in ChkPrograms
  /\ "failed" \in flags
  /\ "chkFin" \in flags
  /\ status = "exit"
  /\ nFin = 1

\* C8: test.c ends through chk, which calls gmshFinalize once and exits with
\* status 0; the gmshFinalize at the end of main is not reached, finalize is
\* never called twice, and the exit status is 0 on every path.
C8_TestCExit ==
  prog = "test.c" =>
    /\ nFin <= 1
    /\ "chkFin" \in flags => status = "exit" /\ "mainFin" \notin flags
    /\ status # "run" =>
         /\ status = "exit"
         /\ exitCode = 0
         /\ nFin = 1
         /\ "chkFin" \in flags

\* C8 witness: test.c went through genGeometry, the mesh and printMesh, and
\* exited at the chk of genError.
C8_Witness ==
  /\ prog = "test.c"
  /\ status = "exit"
  /\ exitCode = 0
  /\ Instr.op = "chk"
  /\ Instr.line = 81
  /\ "mainFin" \notin flags

\* C9: in the C++ tutorials with a try block, once a guarded call has thrown
\* the program makes no geometry, mesh generation or write call any more: it
\* is in the handler, at logger::write, finalize or return, and it ends with
\* exit status 0 after having written the log message.
C9_HandlerExits ==
  (prog \in TryPrograms /\ "caught" \in flags) =>
    /\ "laterWork" \notin flags
    /\ status = "run" =>
         \/ Instr.op = "ret"
         \/ Instr.op = "call" /\ Instr.kind \in {"log", "fin"}
    /\ status # "run" =>
         /\ status = "exit"
         /\ exitCode = 0
         /\ "logged" \in flags

\* C9 witness: a guarded call threw and the program has returned from the
\* handler.
C9_Witness ==
  /\ prog \in TryPrograms
  /\ "caught" \in flags
  /\ "logged" \in flags
  /\ status = "exit"

\* C10 (as stated): in the C examples every array the API allocated is
\* released with gmshFree exactly once before the program exits, and is never
\* read after it was freed.
C10_ArraysFreedOnce ==
  prog \in CPrograms =>
    /\ flags \cap {"doubleFree", "readAfterFree", "lost"} = {}
    /\ Terminated => \A a \in Arrays : heap[a] # "live"

\* the programs that index the vector of view tags, the number of views each
\* expects, and the lines of the block that rejects any other number
ViewPrograms == {"t8.cpp", "t9.cpp", "plugin.cpp"}
ViewsExpected(p) == IF p = "t8.cpp" THEN 4 ELSE 1
RejectLines(p) == IF p = "t8.cpp" THEN 82..85 ELSE 38..41

\* C14: t8.cpp, t9.cpp and plugin.cpp index the vector of view tags only when
\* getTags returned the number of tags they expect (4, 1, 1), and never out of
\* range; with any other number t8.cpp and t9.cpp go through the block that logs
\* "Wrong number of views!", finalize once and return 1 without an index access
C14_ViewGuard ==
  prog \in ViewPrograms =>
    /\ "outOfRange" \notin flags
    /\ "indexed" \in flags => views = ViewsExpected(prog)
    /\ (prog # "plugin.cpp" /\ views >= 0 /\ views # ViewsExpected(prog)) =>
         /\ "indexed" \notin flags
         /\ status = "run" => Instr.line \in RejectLines(prog)
         /\ status # "run" =>
              /\ status = "exit" /\ exitCode = 1 /\ nFin = 1
              /\ "viewsLogged" \in flags

\* t8.cpp or t9.cpp has returned 1 on a wrong number of views
C14_Witness ==
  /\ prog \in {"t8.cpp", "t9.cpp"}
  /\ views >= 0 /\ views # ViewsExpected(prog)
  /\ status = "exit" /\ exitCode = 1 /\ "viewsLogged" \in flags
====
